---------------------------- MODULE Spec2Model ----------------------------
(***************************************************************************)
(* Retrieval pipeline of the news-story report generator: date extraction  *)
(* and temporal ordering (time_processor.py), textual re-ranking and the   *)
(* retrieval orchestrator (subagents/event_summary.py), chunking and index *)
(* building (indexing.py), similarity retrieval (retrieval_by_id.py) and   *)
(* the batch drivers (generate_report.py, generate_report_zcm.py).         *)
(*                                                                         *)
(* Texts are sequences of characters.  A character is a one-letter string; *)
(* the CJK characters the date patterns name are written "nian" (年),      *)
(* "yue" (月), "ri" (日), and "han" stands for any other CJK ideograph.    *)
(***************************************************************************)
EXTENDS Integers, Sequences, FiniteSets, TLC

VARIABLES
  \* ---- time processor / re-ranker functions (SpecTP)
  tpPc,        \* "input" | "extracted" | "reranked" | "enhanced"
  tpText,      \* argument of extract_dates_from_text
  tpChunks,    \* argument list of retrieved chunks
  tpQuery,     \* query argument of the re-ranker
  tpK,         \* k argument of the re-ranker
  tpSortBy,    \* sort_by argument
  tpOut,       \* the value returned by the applied function
  \* ---- chunk_text (SpecChunk)
  ckPc,        \* "idle" | "enter" | "loop" | "done"
  ckN,         \* len(tokens)
  ckSize,      \* chunk_size
  ckOverlap,   \* chunk_overlap
  ckStart,     \* start
  ckStep,      \* step
  ckOut,       \* out: the token span <<first, end>> (0-based, end exclusive) of each chunk
  ckIters,     \* loop iterations entered so far
  \* ---- index store, builder, retriever and orchestrator (SpecBuild, SpecRetrieve)
  data,        \* the dataset: story id -> its list of documents
  disk,        \* faiss_indexes/id_<story>: absent, a directory without a
               \* loadable index, or the saved index (its entries in order)
  op,          \* the last call made and what it returned
  \* ---- the batch drivers generate_report (SpecBatch)
  batPc,       \* "idle", "seq" / "zcm" (the driver's loop), "write", "done"
  driver,      \* "seq": generate_report.py; "zcm": generate_report_zcm.py
  ids,         \* the requested story ids
  runs,        \* position in ids -> what that story's pipeline produced
  reports,     \* generate_report.py: the reports appended so far
  results_map, \* generate_report_zcm.py: story id -> summary
  failed_ids,  \* the failed-id list
  pending,     \* generate_report_zcm.py: positions whose future has not completed
  result_file, \* output/results/result.json
  batRaised,   \* the driver ended with an exception
  \* ---- the worker pool of generate_report_zcm.py building indexes (SpecConc)
  wk           \* story id -> the position of its process_task and the
               \* in-memory index (vs) it has made

tpVars == <<tpPc, tpText, tpChunks, tpQuery, tpK, tpSortBy, tpOut>>
ckVars == <<ckPc, ckN, ckSize, ckOverlap, ckStart, ckStep, ckOut, ckIters>>

sysVars == <<data, disk, op>>

batVars == <<batPc, driver, ids, runs, reports, results_map, failed_ids,
             pending, result_file, batRaised>>

vars == <<tpVars, ckVars, sysVars, batVars, wk>>

-----------------------------------------------------------------------------
(* Generic helpers *)

Min(a, b) == IF a <= b THEN a ELSE b
Max(a, b) == IF a >= b THEN a ELSE b
SetMax(S) == CHOOSE x \in S : \A y \in S : y <= x
Range(s) == {s[i] : i \in 1..Len(s)}

\* Python's None
None == <<>>

-----------------------------------------------------------------------------
(* Characters *)

Digits == {"0", "1", "2", "3", "4", "5", "6", "7", "8", "9"}
Letters == {"a", "b", "c", "q", "s", "t", "A", "B"}
CJK == {"nian", "yue", "ri", "han"}

\* \w of the re module on str patterns: Unicode letters, digits and "_"
IsWord(c) == c \in Digits \cup Letters \cup CJK \cup {"_"}

DigitVal(c) ==
  CASE c = "0" -> 0 [] c = "1" -> 1 [] c = "2" -> 2 [] c = "3" -> 3
    [] c = "4" -> 4 [] c = "5" -> 5 [] c = "6" -> 6 [] c = "7" -> 7
    [] c = "8" -> 8 [] c = "9" -> 9

\* str.lower() on one character
LowerChar(c) == CASE c = "A" -> "a" [] c = "B" -> "b" [] OTHER -> c
Lower(s) == [i \in 1..Len(s) |-> LowerChar(s[i])]

-----------------------------------------------------------------------------
(* Regular expressions of the date patterns.  A pattern is a sequence of   *)
(* elements: a literal character, or a greedy run \d{lo,hi}.               *)

Lit(c) == [kind |-> "lit", ch |-> c, lo |-> 1, hi |-> 1]
Dig(l, h) == [kind |-> "dig", ch |-> "", lo |-> l, hi |-> h]

\* \b at position pos (between text[pos-1] and text[pos])
WordBoundary(text, pos) ==
  LET before == pos > 1 /\ pos - 1 <= Len(text) /\ IsWord(text[pos - 1])
      after == pos >= 1 /\ pos <= Len(text) /\ IsWord(text[pos])
  IN before # after

RECURSIVE DigitRun(_, _)
\* number of consecutive digits of text starting at pos
DigitRun(text, pos) ==
  IF pos <= Len(text) /\ text[pos] \in Digits
  THEN 1 + DigitRun(text, pos + 1)
  ELSE 0

RECURSIVE MatchFrom(_, _, _, _, _)
\* The position after the match of pat[k..] at pos (0: no match), with the
\* regex engine's preference: a greedy run takes the most digits for which the
\* rest of the pattern still matches.  endB: the pattern ends with \b.
MatchFrom(pat, k, text, pos, endB) ==
  IF k > Len(pat)
  THEN IF endB /\ ~WordBoundary(text, pos) THEN 0 ELSE pos
  ELSE IF pat[k].kind = "lit"
  THEN IF pos <= Len(text) /\ text[pos] = pat[k].ch
       THEN MatchFrom(pat, k + 1, text, pos + 1, endB)
       ELSE 0
  ELSE LET run == DigitRun(text, pos)
           cands == {n \in pat[k].lo .. Min(pat[k].hi, run) :
                       MatchFrom(pat, k + 1, text, pos + n, endB) # 0}
       IN IF cands = {} THEN 0
          ELSE MatchFrom(pat, k + 1, text, pos + SetMax(cands), endB)

RECURSIVE FindAllFrom(_, _, _)
\* re.findall(r'\b' + pat + r'\b', text): the non-overlapping matches, left
\* to right, scanning from position i
FindAllFrom(pat, text, i) ==
  IF i > Len(text) THEN <<>>
  ELSE LET e == IF WordBoundary(text, i)
                THEN MatchFrom(pat, 1, text, i, TRUE) ELSE 0
       IN IF e = 0 THEN FindAllFrom(pat, text, i + 1)
          ELSE <<SubSeq(text, i, e - 1)>> \o FindAllFrom(pat, text, e)

FindAll(pat, text) == FindAllFrom(pat, text, 1)

\* re.match(pat, s): a match of pat at the start of s (no \b, no end anchor)
ReMatch(pat, s) == MatchFrom(pat, 1, s, 1, FALSE) # 0

PatIso == <<Dig(4, 4), Lit("-"), Dig(1, 2), Lit("-"), Dig(1, 2)>>
PatSlash == <<Dig(4, 4), Lit("/"), Dig(1, 2), Lit("/"), Dig(1, 2)>>
PatCnYmd == <<Dig(4, 4), Lit("nian"), Dig(1, 2), Lit("yue"), Dig(1, 2), Lit("ri")>>
PatUs == <<Dig(1, 2), Lit("/"), Dig(1, 2), Lit("/"), Dig(4, 4)>>
PatDot == <<Dig(4, 4), Lit("."), Dig(1, 2), Lit("."), Dig(1, 2)>>
PatCnYm == <<Dig(4, 4), Lit("nian"), Dig(1, 2), Lit("yue")>>
PatCnMd == <<Dig(1, 2), Lit("yue"), Dig(1, 2), Lit("ri")>>
PatTs10 == <<Dig(10, 10)>>
PatTs13 == <<Dig(13, 13)>>

\* TimeProcessor.date_patterns, in order
date_patterns ==
  <<PatIso, PatSlash, PatCnYmd, PatUs, PatDot, PatCnYm, PatCnMd, PatTs10, PatTs13>>

-----------------------------------------------------------------------------
(* Calendar.  A datetime is <<ordinal, seconds>>: the proleptic Gregorian   *)
(* ordinal of its day (0001-01-01 is day 1, as datetime.toordinal) and the  *)
(* second within the day; sub-second parts are not represented.             *)

IsLeap(y) == y % 4 = 0 /\ (y % 100 # 0 \/ y % 400 = 0)

DaysInMonth(y, m) ==
  CASE m \in {1, 3, 5, 7, 8, 10, 12} -> 31
    [] m \in {4, 6, 9, 11} -> 30
    [] OTHER -> IF IsLeap(y) THEN 29 ELSE 28

RECURSIVE DaysBeforeMonth(_, _)
DaysBeforeMonth(y, m) ==
  IF m <= 1 THEN 0 ELSE DaysBeforeMonth(y, m - 1) + DaysInMonth(y, m - 1)

Ymd2Ord(y, m, d) ==
  LET py == y - 1
  IN py * 365 + (py \div 4) - (py \div 100) + (py \div 400)
       + DaysBeforeMonth(y, m) + d

\* datetime.datetime(y, m, d)
Date(y, m, d) == <<Ymd2Ord(y, m, d), 0>>

\* datetime.datetime.max = 9999-12-31 23:59:59.999999
DatetimeMax == <<Ymd2Ord(9999, 12, 31), 86399>>

DtLess(a, b) == a[1] < b[1] \/ (a[1] = b[1] /\ a[2] < b[2])
DtLeq(a, b) == a = b \/ DtLess(a, b)

RECURSIVE NumVal(_)
\* int() of a string of at most nine digits
NumVal(ds) ==
  IF Len(ds) = 0 THEN 0
  ELSE NumVal(SubSeq(ds, 1, Len(ds) - 1)) * 10 + DigitVal(ds[Len(ds)])

AllDigits(s) == \A i \in 1..Len(s) : s[i] \in Digits

\* datetime.strptime(s, fmt) for the three formats used: fmt is three numeric
\* directives separated by sep, "ymd" for %Y<sep>%m<sep>%d and "mdy" for
\* %m<sep>%d<sep>%Y.  None stands for the ValueError the caller swallows.
Strptime(s, sep, order) ==
  LET n1 == DigitRun(s, 1)
      p2 == n1 + 2
      n2 == DigitRun(s, p2)
      p3 == p2 + n2 + 1
      n3 == DigitRun(s, p3)
      shape == /\ n1 > 0 /\ n2 > 0 /\ n3 > 0
               /\ s[n1 + 1] = sep /\ s[p2 + n2] = sep
               /\ p3 + n3 - 1 = Len(s)
      f1 == SubSeq(s, 1, n1)
      f2 == SubSeq(s, p2, p2 + n2 - 1)
      f3 == SubSeq(s, p3, p3 + n3 - 1)
      fy == IF order = "ymd" THEN f1 ELSE f3
      fm == IF order = "ymd" THEN f2 ELSE f1
      fd == IF order = "ymd" THEN f3 ELSE f2
      y == NumVal(fy)
      m == NumVal(fm)
      d == NumVal(fd)
  IN IF /\ shape
        /\ Len(fy) = 4 /\ Len(fm) <= 2 /\ Len(fd) <= 2
        /\ y >= 1 /\ m \in 1..12 /\ d >= 1 /\ d <= DaysInMonth(y, m)
     THEN Date(y, m, d)
     ELSE None

\* 2100-01-01 00:00:00 UTC = 4102444800 seconds, as <<41024, 44800>> in base 10^5
TsLimitHi == 41024
TsLimitLo == 44800

\* int(s) of a digit string of 6..13 digits as <<hi, lo>> with value hi*10^5 + lo
TsPair(s) ==
  <<NumVal(SubSeq(s, 1, Len(s) - 5)), NumVal(SubSeq(s, Len(s) - 4, Len(s)))>>

\* timestamp > 0 and timestamp < 4102444800
TsInRange(t) ==
  /\ (t[1] > 0 \/ t[2] > 0)
  /\ (t[1] < TsLimitHi \/ (t[1] = TsLimitHi /\ t[2] < TsLimitLo))

\* datetime.fromtimestamp(t) for an in-range t, in UTC
FromTimestamp(t) ==
  LET t100 == t[1] * 1000 + (t[2] \div 100)
      days == t100 \div 864
      secs == (t100 % 864) * 100 + (t[2] % 100)
  IN <<Ymd2Ord(1970, 1, 1) + days, secs>>

\* date_str.replace('年', '-').replace('月', '-').replace('日', '')
RECURSIVE ReplaceCn(_)
ReplaceCn(s) ==
  IF Len(s) = 0 THEN <<>>
  ELSE LET c == s[1]
           r == IF c = "nian" \/ c = "yue" THEN <<"-">>
                ELSE IF c = "ri" THEN <<>> ELSE <<c>>
       IN r \o ReplaceCn(Tail(s))

\* TimeProcessor._parse_date: the first branch whose regex matches at the
\* start of date_str decides; a failed parse gives None
parse_date(date_str) ==
  IF ReMatch(PatIso, date_str) THEN Strptime(date_str, "-", "ymd")
  ELSE IF ReMatch(PatSlash, date_str) THEN Strptime(date_str, "/", "ymd")
  ELSE IF ReMatch(PatCnYmd, date_str)
       THEN Strptime(ReplaceCn(date_str), "-", "ymd")
  ELSE IF ReMatch(PatUs, date_str) THEN Strptime(date_str, "/", "mdy")
  ELSE IF ReMatch(PatTs10, date_str)
       THEN IF AllDigits(date_str) /\ TsInRange(TsPair(date_str))
            THEN FromTimestamp(TsPair(date_str))
            ELSE None
  ELSE IF ReMatch(PatTs13, date_str)
       THEN LET secs == SubSeq(date_str, 1, Len(date_str) - 3)
            IN IF AllDigits(date_str) /\ TsInRange(TsPair(secs))
               THEN FromTimestamp(TsPair(secs))
               ELSE None
  ELSE None

\* "if x: out.append(x)" for an x that is None or a value
AppendIfSome(x) == IF x # None THEN <<x>> ELSE <<>>

RECURSIVE ParseAll(_)
\* the inner loop of extract_dates_from_text over one pattern's matches
ParseAll(matches) ==
  IF Len(matches) = 0 THEN <<>>
  ELSE AppendIfSome(parse_date(matches[1])) \o ParseAll(Tail(matches))

RECURSIVE ExtractFrom(_, _)
ExtractFrom(text, p) ==
  IF p > Len(date_patterns) THEN <<>>
  ELSE ParseAll(FindAll(date_patterns[p], text)) \o ExtractFrom(text, p + 1)

\* TimeProcessor.extract_dates_from_text
extract_dates_from_text(text) == ExtractFrom(text, 1)

\* TimeProcessor.get_earliest_date / get_latest_date
get_earliest_date(dates) ==
  IF Len(dates) = 0 THEN None
  ELSE CHOOSE d \in Range(dates) : \A e \in Range(dates) : DtLeq(d, e)

get_latest_date(dates) ==
  IF Len(dates) = 0 THEN None
  ELSE CHOOSE d \in Range(dates) : \A e \in Range(dates) : DtLeq(e, d)

-----------------------------------------------------------------------------
(* Texts used as inputs *)

\* "事件发生在2023年5月1日"
TextCnInline ==
  <<"han", "han", "han", "han", "han",
    "2", "0", "2", "3", "nian", "5", "yue", "1", "ri">>
\* "ts=9999999999999"
TextTsBig == <<"t", "s", "=", "9", "9", "9", "9", "9", "9", "9", "9", "9", "9", "9", "9", "9">>
\* "2023年5月1日"
TextCnAlone == <<"2", "0", "2", "3", "nian", "5", "yue", "1", "ri">>
\* "a 2023-01-01"
TextIsoJan == <<"a", " ", "2", "0", "2", "3", "-", "0", "1", "-", "0", "1">>
\* "b 2023/6/1"
TextSlashJun == <<"b", " ", "2", "0", "2", "3", "/", "6", "/", "1">>
\* "6/1/2023 A"
TextUsJun == <<"6", "/", "1", "/", "2", "0", "2", "3", " ", "A">>
\* "a b c" (no date)
TextPlain == <<"a", " ", "b", " ", "c">>
\* "B q" (no date)
TextPlain2 == <<"B", " ", "q">>
\* "2023-06-01 2023-01-01" (two dates, later first)
TextTwoDates ==
  <<"2", "0", "2", "3", "-", "0", "6", "-", "0", "1", " ",
    "2", "0", "2", "3", "-", "0", "1", "-", "0", "1">>
\* "2023-02-30" (no such day)
TextBadDay == <<"2", "0", "2", "3", "-", "0", "2", "-", "3", "0">>
\* "2023.05.01"
TextDotted == <<"2", "0", "2", "3", ".", "0", "5", ".", "0", "1">>
\* "2023年5月"
TextCnYm == <<"2", "0", "2", "3", "nian", "5", "yue">>
\* "5月1日"
TextCnMd == <<"5", "yue", "1", "ri">>
\* "1700000000" (2023-11-14 22:13:20 UTC)
TextTs10 == <<"1", "7", "0", "0", "0", "0", "0", "0", "0", "0">>
\* "1700000000000"
TextTs13 == <<"1", "7", "0", "0", "0", "0", "0", "0", "0", "0", "0", "0", "0">>
\* "2023/12/11/2023" (the slash and the US form overlap)
TextOverlap ==
  <<"2", "0", "2", "3", "/", "1", "2", "/", "1", "1", "/", "2", "0", "2", "3">>
\* ""
TextEmpty == <<>>

ExtractTexts ==
  {TextCnInline, TextTsBig, TextCnAlone, TextIsoJan, TextSlashJun, TextUsJun,
   TextPlain, TextPlain2, TextTwoDates, TextBadDay, TextDotted, TextCnYm,
   TextCnMd, TextTs10, TextTs13, TextOverlap, TextEmpty}

-----------------------------------------------------------------------------
(* Stable sort, as list.sort / sorted: an element is placed before the      *)
(* first already-placed element that is strictly greater.                   *)

\* the order of sort keys: datetimes ascending ("date"), or similarity
\* fractions descending ("score", for sort(reverse=True))
FracLess(x, y) == x[1] * y[2] < y[1] * x[2]

KeyLess(mode, x, y) ==
  IF mode = "date"
  THEN x[1] < y[1] \/ (x[1] = y[1] /\ x[2] < y[2])
  ELSE FracLess(y, x)

\* the insertion that puts x before the items of equal key
InsertBeforeEqual(s, x, mode) ==
  LET notEarlier == {i \in 1..Len(s) : ~KeyLess(mode, s[i][1], x[1])}
      at == IF notEarlier = {} THEN Len(s) + 1
            ELSE CHOOSE i \in notEarlier : \A j \in notEarlier : i <= j
  IN SubSeq(s, 1, at - 1) \o <<x>> \o SubSeq(s, at, Len(s))

\* s is a sequence of <<key, item>>
InsertStable(s, x, mode) ==
  LET later == {i \in 1..Len(s) : KeyLess(mode, x[1], s[i][1])}
      at == IF later = {} THEN Len(s) + 1
            ELSE CHOOSE i \in later : \A j \in later : i <= j
  IN SubSeq(s, 1, at - 1) \o <<x>> \o SubSeq(s, at, Len(s))

RECURSIVE StableSort(_, _)
StableSort(s, mode) ==
  IF Len(s) = 0 THEN <<>>
  ELSE InsertStable(StableSort(SubSeq(s, 1, Len(s) - 1), mode), s[Len(s)], mode)

RECURSIVE JoinSpace(_)
\* ' '.join(parts)
JoinSpace(parts) ==
  IF Len(parts) = 0 THEN <<>>
  ELSE IF Len(parts) = 1 THEN parts[1]
  ELSE parts[1] \o <<" ">> \o JoinSpace(Tail(parts))

-----------------------------------------------------------------------------
(* time_processor.py.  A retrieved chunk is                                 *)
(* [content, metadata |-> [id, doc_id]]; doc_id "" stands for a missing or  *)
(* empty doc_id (both falsy).                                               *)

NoDocId == ""

RECURSIVE GroupOrder(_, _)
\* the keys of doc_groups in insertion order: doc_ids by first appearance
GroupOrder(chunks, seen) ==
  IF Len(chunks) = 0 THEN <<>>
  ELSE LET d == chunks[1].metadata.doc_id
       IN IF d # NoDocId /\ d \notin seen
          THEN <<d>> \o GroupOrder(Tail(chunks), seen \cup {d})
          ELSE GroupOrder(Tail(chunks), seen)

RECURSIVE ChunksOfReversed(_, _)
\* the chunks of one doc_id with each chunk put before the earlier ones
ChunksOfReversed(chunks, d) ==
  IF Len(chunks) = 0 THEN <<>>
  ELSE ChunksOfReversed(Tail(chunks), d)
         \o (IF chunks[1].metadata.doc_id = d THEN <<chunks[1]>> ELSE <<>>)

\* the chunks of one doc_id, in list order
RECURSIVE ChunksOf(_, _)
ChunksOf(chunks, d) ==
  IF Len(chunks) = 0 THEN <<>>
  ELSE (IF chunks[1].metadata.doc_id = d THEN <<chunks[1]>> ELSE <<>>)
         \o ChunksOf(Tail(chunks), d)

\* TimeProcessor.group_chunks_by_document: the dict as the sequence of its
\* items <<doc_id, chunks>> in insertion order
group_chunks_by_document(chunks) ==
  LET keys == GroupOrder(chunks, {})
  IN [i \in 1..Len(keys) |-> <<keys[i], ChunksOf(chunks, keys[i])>>]

\* extract_dates_from_text on the input texts, evaluated once
DatesTable == [t \in ExtractTexts |-> extract_dates_from_text(t)]

DatesOfText(text) ==
  IF text \in ExtractTexts THEN DatesTable[text] ELSE extract_dates_from_text(text)

RECURSIVE AllDates(_)
AllDates(chunks) ==
  IF Len(chunks) = 0 THEN <<>>
  ELSE DatesOfText(chunks[1].content) \o AllDates(Tail(chunks))

\* the merged dict with the metadata of the last chunk instead of the first
MergedDocumentLastMetadata(chunks, all_dates) ==
  [content |-> JoinSpace([i \in 1..Len(chunks) |-> chunks[i].content]),
   metadata |-> chunks[Len(chunks)].metadata,
   dates |-> all_dates,
   earliest_date |-> get_earliest_date(all_dates),
   latest_date |-> get_latest_date(all_dates),
   chunk_count |-> Len(chunks)]

\* the dict merge_chunks_for_document returns
MergedDocument(chunks, all_dates) ==
  [content |-> JoinSpace([i \in 1..Len(chunks) |-> chunks[i].content]),
   metadata |-> chunks[1].metadata,
   dates |-> all_dates,
   earliest_date |-> get_earliest_date(all_dates),
   latest_date |-> get_latest_date(all_dates),
   chunk_count |-> Len(chunks)]

\* TimeProcessor.merge_chunks_for_document ({} for an empty group is None here)
merge_chunks_for_document(chunks) ==
  IF Len(chunks) = 0 THEN None
  ELSE MergedDocument(chunks, AllDates(chunks))

\* get_sort_key with the dateless documents keyed minimal instead of maximal
get_sort_key_dateless_first(doc, sort_by) ==
  LET date == IF sort_by = "earliest" THEN doc.earliest_date ELSE doc.latest_date
  IN IF date = None THEN <<0, 0>> ELSE date

\* get_sort_key of TimeProcessor.sort_documents_by_time
get_sort_key(doc, sort_by) ==
  LET date == IF sort_by = "earliest" THEN doc.earliest_date ELSE doc.latest_date
  IN IF date = None THEN DatetimeMax ELSE date

\* the items of a sorted sequence of <<key, item>>
Items(sorted) == [i \in 1..Len(sorted) |-> sorted[i][2]]

\* TimeProcessor.sort_documents_by_time
sort_documents_by_time(documents, sort_by) ==
  Items(StableSort([i \in 1..Len(documents) |->
                      <<get_sort_key(documents[i], sort_by), documents[i]>>],
                   "date"))

RECURSIVE MergeGroups(_)
MergeGroups(groups) ==
  IF Len(groups) = 0 THEN <<>>
  ELSE AppendIfSome(merge_chunks_for_document(groups[1][2]))
         \o MergeGroups(Tail(groups))

\* lines 149-155: time_rank and has_time_info added to every sorted document
WithTimeRank(sorted_docs) ==
  [i \in 1..Len(sorted_docs) |->
     [content |-> sorted_docs[i].content,
      metadata |-> sorted_docs[i].metadata,
      dates |-> sorted_docs[i].dates,
      earliest_date |-> sorted_docs[i].earliest_date,
      latest_date |-> sorted_docs[i].latest_date,
      chunk_count |-> sorted_docs[i].chunk_count,
      time_rank |-> i,
      has_time_info |-> sorted_docs[i].earliest_date # None]]

\* enhance_retrieval_with_time_sorting (the query argument is unused)
enhance_retrieval_with_time_sorting(retrieved_chunks, sort_by) ==
  WithTimeRank(
    sort_documents_by_time(
      MergeGroups(group_chunks_by_document(retrieved_chunks)), sort_by))

-----------------------------------------------------------------------------
(* subagents/event_summary.py: the re-ranker                                *)

\* difflib.SequenceMatcher.find_longest_match on a[alo..ahi], b[blo..bhi]
\* (1-based, inclusive; no junk): <<i, j, k>>, the longest common block,
\* the one starting earliest in a and then earliest in b; k = 0 if none
FindLongestMatch(a, alo, ahi, b, blo, bhi) ==
  LET blocks == {t \in (alo..ahi) \X (blo..bhi) \X (1..Min(ahi - alo + 1, bhi - blo + 1)) :
                   /\ t[1] + t[3] - 1 <= ahi
                   /\ t[2] + t[3] - 1 <= bhi
                   /\ \A d \in 0..(t[3] - 1) : a[t[1] + d] = b[t[2] + d]}
      Better(t, u) == \/ t[3] > u[3]
                      \/ (t[3] = u[3] /\ t[1] < u[1])
                      \/ (t[3] = u[3] /\ t[1] = u[1] /\ t[2] <= u[2])
  IN IF blocks = {} THEN <<alo, blo, 0>>
     ELSE CHOOSE t \in blocks : \A u \in blocks : Better(t, u)

RECURSIVE MatchCount(_, _, _, _, _, _)
\* the total size of SequenceMatcher.get_matching_blocks
MatchCount(a, alo, ahi, b, blo, bhi) ==
  IF alo > ahi \/ blo > bhi THEN 0
  ELSE LET t == FindLongestMatch(a, alo, ahi, b, blo, bhi)
       IN IF t[3] = 0 THEN 0
          ELSE t[3] + MatchCount(a, alo, t[1] - 1, b, blo, t[2] - 1)
                    + MatchCount(a, t[1] + t[3], ahi, b, t[2] + t[3], bhi)

\* SequenceMatcher(None, a, b).ratio() = 2.0 * matches / (len(a) + len(b)),
\* as the fraction <<numerator, denominator>>; 1.0 when both are empty
Ratio(a, b) ==
  IF Len(a) + Len(b) = 0 THEN <<1, 1>>
  ELSE <<2 * MatchCount(a, 1, Len(a), b, 1, Len(b)), Len(a) + Len(b)>>

\* "a b", "B q"
QueryAB == <<"a", " ", "b">>
QueryBq == <<"B", " ", "q">>
Queries == {<<>>, QueryAB, QueryBq}

SeqsUpTo(S, n) == UNION {[1..m -> S] : m \in 0..n}

\* the query variants of one orchestrator run: at most MaxWords of these
MaxWords == 2

\* "", "a", "B q"
QueryWordUniverse == {<<>>, <<"a">>, QueryBq}

RECURSIVE AccumulateQueryNoSeparator(_)
\* the accumulation without the separating space
AccumulateQueryNoSeparator(query_words) ==
  IF Len(query_words) = 0 THEN <<>>
  ELSE query_words[1] \o AccumulateQueryNoSeparator(Tail(query_words))

RECURSIVE AccumulateQuery(_)
\* query after the loop: query += query_word + " " for every variant
AccumulateQuery(query_words) ==
  IF Len(query_words) = 0 THEN <<>>
  ELSE query_words[1] \o <<" ">> \o AccumulateQuery(Tail(query_words))

RECURSIVE LStrip(_)
LStrip(s) == IF Len(s) > 0 /\ s[1] = " " THEN LStrip(Tail(s)) ELSE s

RECURSIVE RStrip(_)
RStrip(s) ==
  IF Len(s) > 0 /\ s[Len(s)] = " " THEN RStrip(SubSeq(s, 1, Len(s) - 1)) ELSE s

\* str.strip()
Strip(s) == RStrip(LStrip(s))

\* the re-ranking queries of the orchestrator runs, and the space-joined
\* concatenations of their variants
PipelineQueries ==
  UNION {{Strip(AccumulateQuery(w)), JoinSpace(w), Strip(JoinSpace(w)),
          Strip(AccumulateQueryNoSeparator(w))} :
           w \in SeqsUpTo(QueryWordUniverse, MaxWords)}

SimQueries == Queries \cup PipelineQueries
SimTexts == {TextIsoJan, TextPlain, TextPlain2, TextEmpty}

\* query.lower() against content.lower()
SimilarityOf(query, content) == Ratio(Lower(query), Lower(content))

\* the similarities of the input queries and texts, evaluated once
SimTable == [q \in SimQueries, t \in SimTexts |-> SimilarityOf(q, t)]

\* the similarity of one document to the query
similarity(query, doc) ==
  IF query \in SimQueries /\ doc.content \in SimTexts
  THEN SimTable[query, doc.content]
  ELSE SimilarityOf(query, doc.content)

\* documents[:k] for k >= 0
Take(s, k) == SubSeq(s, 1, Min(k, Len(s)))

\* the re-ranker truncating to k before it sorts
rerank_positions_truncate_first(documents, query, k) ==
  IF Len(documents) = 0 \/ Len(query) = 0
  THEN Take([i \in 1..Len(documents) |-> i], k)
  ELSE Items(StableSort([i \in 1..Min(k, Len(documents)) |->
                           <<similarity(query, documents[i]), i>>],
                        "score"))

\* rerank_documents_by_similarity_simple as the positions (in documents) of
\* the documents returned, in output order
rerank_positions(documents, query, k) ==
  IF Len(documents) = 0 \/ Len(query) = 0
  THEN Take([i \in 1..Len(documents) |-> i], k)
  ELSE \* scored_docs.sort(key=score, reverse=True): descending, stable
       Take(Items(StableSort([i \in 1..Len(documents) |->
                                <<similarity(query, documents[i]), i>>],
                             "score")),
            k)

\* the elements of s at the positions pos
At(s, pos) == [i \in 1..Len(pos) |-> s[pos[i]]]

\* rerank_documents_by_similarity_simple
rerank_documents_by_similarity_simple(documents, query, k) ==
  At(documents, rerank_positions(documents, query, k))

\* sort_documents_by_time of event_summary.py (and time_sorting_utils.py):
\* raw retrieved chunks (no 'dates' key) go to
\* enhance_retrieval_with_time_sorting(documents, ""), whose sort_by keeps
\* its default
es_sort_documents_by_time(documents, sort_by) ==
  IF Len(documents) = 0 THEN documents
  ELSE IF "dates" \in DOMAIN documents[1]
  THEN sort_documents_by_time(documents, sort_by)
  ELSE enhance_retrieval_with_time_sorting(documents, "earliest")

-----------------------------------------------------------------------------
(* indexing.py: chunk_text.  The text is seen through its token sequence    *)
(* tokens[0..n-1]; a chunk is the token span it decodes.                    *)

\* step with the overlap added instead of subtracted
ChunkStepOverlapAdded(chunk_size, chunk_overlap) == Max(1, chunk_size + chunk_overlap)

\* step of a whole window, the overlap left out
ChunkStepNoOverlap(chunk_size, chunk_overlap) == Max(1, chunk_size)

\* step without the clamp to 1
ChunkStepUnclamped(chunk_size, chunk_overlap) == chunk_size - chunk_overlap

\* step = max(1, chunk_size - chunk_overlap)
ChunkStep(chunk_size, chunk_overlap) == Max(1, chunk_size - chunk_overlap)

\* the span of tokens[start:end] for start >= 0: a negative end counts from
\* the end of the list, and an end before start gives the empty slice
SliceSpan(n, start, end) ==
  LET e0 == IF end < 0 THEN Max(0, end + n) ELSE Min(end, n)
      s0 == Min(start, n)
  IN <<s0, Max(s0, e0)>>

CkIdle ==
  /\ ckPc = "idle" /\ ckN = 0 /\ ckSize = 0 /\ ckOverlap = 0
  /\ ckStart = 0 /\ ckStep = 0 /\ ckOut = <<>> /\ ckIters = 0

\* lines 38-43: tokenize; a text of at most chunk_size tokens is one chunk
CkEnter ==
  /\ ckPc = "enter"
  /\ IF ckN <= ckSize
     THEN /\ ckOut' = <<<<0, ckN>>>>
          /\ ckPc' = "done"
          /\ UNCHANGED <<ckStart, ckStep>>
     ELSE /\ ckOut' = <<>>
          /\ ckStart' = 0
          /\ ckStep' = ChunkStep(ckSize, ckOverlap)
          /\ ckPc' = "loop"
  /\ UNCHANGED <<ckN, ckSize, ckOverlap, ckIters>>
  /\ UNCHANGED <<tpVars, sysVars, batVars, wk>>

\* lines 44-52: one iteration of the while loop
CkIterate ==
  /\ ckPc = "loop"
  /\ ckStart < ckN
  /\ LET end == Min(ckN, ckStart + ckSize)
         seg == SliceSpan(ckN, ckStart, end)
     IN /\ ckIters' = ckIters + 1
        /\ IF seg[1] = seg[2]
           THEN \* if not seg: break
                /\ ckPc' = "done"
                /\ UNCHANGED <<ckOut, ckStart>>
           ELSE /\ ckOut' = Append(ckOut, seg)
                /\ IF end >= ckN
                   THEN ckPc' = "done" /\ UNCHANGED ckStart
                   ELSE ckPc' = "loop" /\ ckStart' = ckStart + ckStep
  /\ UNCHANGED <<ckN, ckSize, ckOverlap, ckStep>>
  /\ UNCHANGED <<tpVars, sysVars, batVars, wk>>

\* line 44: the while condition fails
CkExit ==
  /\ ckPc = "loop"
  /\ ~(ckStart < ckN)
  /\ ckPc' = "done"
  /\ UNCHANGED <<ckN, ckSize, ckOverlap, ckStart, ckStep, ckOut, ckIters>>
  /\ UNCHANGED <<tpVars, sysVars, batVars, wk>>

-----------------------------------------------------------------------------
(* indexing.py: LCEmbeddings.embed_documents.  The encoder is seen through  *)
(* the number of tokens it yields: one token starts at the first character  *)
(* of the text and at every space.  A stored vector is described by the     *)
(* number of chunk embeddings it is the mean of.                            *)

\* config.py: CHUNK_SIZE, CHUNK_OVERLAP
CHUNK_SIZE == 1024
CHUNK_OVERLAP == 128

\* len(_enc.encode(text))
TokenCount(text) ==
  Cardinality({i \in 1..Len(text) : i = 1 \/ text[i] = " "})

RECURSIVE ChunkLoop(_, _, _, _, _)
\* lines 44-52: the while loop of chunk_text from position start
ChunkLoop(n, chunk_size, step, start, out) ==
  IF ~(start < n) THEN out
  ELSE IF SliceSpan(n, start, Min(n, start + chunk_size))[1]
          = SliceSpan(n, start, Min(n, start + chunk_size))[2]
  THEN out
  ELSE IF Min(n, start + chunk_size) >= n
  THEN Append(out, SliceSpan(n, start, Min(n, start + chunk_size)))
  ELSE ChunkLoop(n, chunk_size, step, start + step,
                 Append(out, SliceSpan(n, start, Min(n, start + chunk_size))))

\* chunk_text on a text of n tokens: the token spans of the chunks
chunk_text(n, chunk_size, chunk_overlap) ==
  IF n <= chunk_size THEN <<<<0, n>>>>
  ELSE ChunkLoop(n, chunk_size, ChunkStep(chunk_size, chunk_overlap), 0, <<>>)

\* the number of chunks of each text (counts, lines 18-23)
ChunkCounts(texts) ==
  [i \in 1..Len(texts) |->
     Len(chunk_text(TokenCount(texts[i]), CHUNK_SIZE, CHUNK_OVERLAP))]

RECURSIVE OneVectorPerChunk(_)
\* the embeddings of the chunks returned as they come, one vector a chunk
OneVectorPerChunk(counts) ==
  IF Len(counts) = 0 THEN <<>>
  ELSE [j \in 1..counts[1] |-> [mean_of |-> 1]] \o OneVectorPerChunk(Tail(counts))

\* the embeddings of the chunks of all texts, every chunk a vector of its own
embed_documents_flat(texts) == OneVectorPerChunk(ChunkCounts(texts))

\* embed_documents(texts): for each text, aggregate_embeddings of the
\* embeddings of its chunks (lines 25-31)
embed_documents(texts) ==
  [i \in 1..Len(texts) |-> [mean_of |-> ChunkCounts(texts)[i]]]

-----------------------------------------------------------------------------
(* indexing.py: build_faiss_for_id; retrieval_by_id.py: retrieve_by_id.     *)
(* A document is [doc_id, text]; "" and <<>> are the empty doc_id and the   *)
(* empty text.  An index entry is [content, metadata |-> [id, doc_id]].     *)

Stories == {"s1", "s2"}

Absent == [state |-> "absent", entries |-> <<>>]
BrokenDir == [state |-> "dir", entries |-> <<>>]
Saved(entries) == [state |-> "index", entries |-> entries]

\* os.path.join(index_root, f"id_{rid}")
IndexPath(rid) == <<"faiss_indexes", "id_", rid>>
\* the "" build_faiss_for_id returns when nothing is indexed
EmptyHandle == <<>>

RECURSIVE KeptDocsDedupAll(_, _)
\* the filter with the doc_id marked seen before the validity test
KeptDocsDedupAll(docs, seen) ==
  IF Len(docs) = 0 THEN <<>>
  ELSE LET d == docs[1]
       IN IF d.doc_id \in seen
          THEN KeptDocsDedupAll(Tail(docs), seen)
          ELSE IF d.doc_id = "" \/ d.text = <<>>
          THEN KeptDocsDedupAll(Tail(docs), seen \cup {d.doc_id})
          ELSE <<d>> \o KeptDocsDedupAll(Tail(docs), seen \cup {d.doc_id})

RECURSIVE KeptDocs(_, _)
\* lines 132-144: the documents whose text and meta are appended
KeptDocs(docs, seen) ==
  IF Len(docs) = 0 THEN <<>>
  ELSE LET d == docs[1]
       IN IF d.doc_id = "" \/ d.text = <<>>
          THEN KeptDocs(Tail(docs), seen)
          ELSE IF d.doc_id \in seen
          THEN KeptDocs(Tail(docs), seen)
          ELSE <<d>> \o KeptDocs(Tail(docs), seen \cup {d.doc_id})

\* FAISS.from_texts(texts, metadatas=metas): one entry per text, in order
BuildEntries(rid, docs) ==
  LET kept == KeptDocs(docs, {})
  IN [i \in 1..Len(kept) |->
        [content |-> kept[i].text,
         metadata |-> [id |-> rid, doc_id |-> kept[i].doc_id]]]

\* build_faiss_for_id returning "" when the embedding service fails
BuildResultEmbedSwallowed(rid, docs, fault, old) ==
  LET entries == BuildEntries(rid, docs)
  IN IF Len(entries) = 0 \/ fault = "embed"
     THEN [ret |-> EmptyHandle, raised |-> FALSE, new |-> old]
     ELSE IF fault = "save"
     THEN [ret |-> EmptyHandle, raised |-> TRUE, new |-> BrokenDir]
     ELSE [ret |-> IndexPath(rid), raised |-> FALSE, new |-> Saved(entries)]

\* build_faiss_for_id adding its entries to the index already saved
BuildResultAppending(rid, docs, fault, old) ==
  LET entries == BuildEntries(rid, docs)
  IN IF Len(entries) = 0
     THEN [ret |-> EmptyHandle, raised |-> FALSE, new |-> old]
     ELSE IF fault = "embed"
     THEN [ret |-> EmptyHandle, raised |-> TRUE, new |-> old]
     ELSE IF fault = "save"
     THEN [ret |-> EmptyHandle, raised |-> TRUE, new |-> BrokenDir]
     ELSE [ret |-> IndexPath(rid), raised |-> FALSE,
           new |-> Saved(old.entries \o entries)]

\* What build_faiss_for_id(rid, docs, index_root) does to the story's path
\* and returns.  fault: "none"; "embed", the embedding service fails inside
\* FAISS.from_texts and nothing has been written; "save", save_local fails
\* after makedirs and the directory holds no loadable index.
BuildResult(rid, docs, fault, old) ==
  LET entries == BuildEntries(rid, docs)
  IN IF Len(entries) = 0
     THEN [ret |-> EmptyHandle, raised |-> FALSE, new |-> old]
     ELSE IF fault = "embed"
     THEN [ret |-> EmptyHandle, raised |-> TRUE, new |-> old]
     ELSE IF fault = "save"
     THEN [ret |-> EmptyHandle, raised |-> TRUE, new |-> BrokenDir]
     ELSE [ret |-> IndexPath(rid), raised |-> FALSE, new |-> Saved(entries)]

\* the vectors FAISS.from_texts (line 147) gets from embed_documents for the
\* texts it was given; none when the call is not made or fails
EmbeddedVectors(docs, fault) ==
  IF Len(KeptDocs(docs, {})) = 0 \/ fault = "embed" THEN <<>>
  ELSE embed_documents([i \in 1..Len(KeptDocs(docs, {})) |-> KeptDocs(docs, {})[i].text])

\* the default k of retrieve_by_id
RetrieveK == 5

\* the injective sequences of length m over 1..n
Orderings(n, m) ==
  {f \in [1..m -> 1..n] : \A i, j \in 1..m : i # j => f[i] # f[j]}

\* similarity_search(query, k) on a loaded index: the min(k, n) nearest
\* entries; which ones and in which order is the embedding service's doing
SearchResults(entries, k) ==
  {[i \in 1..Len(f) |-> [content |-> entries[f[i]].content,
                         metadata |-> entries[f[i]].metadata]] :
     f \in Orderings(Len(entries), Min(k, Len(entries)))}

\* The outcomes of retrieve_by_id with an except clause that lets an
\* embedding failure through
RetrieveOutcomesEmbedEscapes(d, k) ==
  IF d.state = "absent"
  THEN {[fault |-> "none", loaded |-> FALSE, embedded |-> FALSE,
         raised |-> FALSE, ret |-> <<>>]}
  ELSE {[fault |-> "load", loaded |-> FALSE, embedded |-> FALSE,
         raised |-> FALSE, ret |-> <<>>]}
       \cup
       (IF d.state # "index" THEN {}
        ELSE {[fault |-> "embed", loaded |-> TRUE, embedded |-> TRUE,
               raised |-> TRUE, ret |-> <<>>],
              [fault |-> "search", loaded |-> TRUE, embedded |-> TRUE,
               raised |-> FALSE, ret |-> <<>>]}
             \cup
             {[fault |-> "none", loaded |-> TRUE, embedded |-> TRUE,
               raised |-> FALSE, ret |-> r] : r \in SearchResults(d.entries, k)})

\* The outcomes of retrieve_by_id(rid, query, index_root, k) on the path
\* state d.  fault names the step that raises inside the try block: "load"
\* (FAISS.load_local; the only outcome of a directory without a loadable
\* index), "embed" (embedding the query), "search"; every exception is caught
\* and turned into [].
RetrieveOutcomes(d, k) ==
  IF d.state = "absent"
  THEN {[fault |-> "none", loaded |-> FALSE, embedded |-> FALSE,
         raised |-> FALSE, ret |-> <<>>]}
  ELSE {[fault |-> "load", loaded |-> FALSE, embedded |-> FALSE,
         raised |-> FALSE, ret |-> <<>>]}
       \cup
       (IF d.state # "index" THEN {}
        ELSE {[fault |-> f, loaded |-> TRUE, embedded |-> TRUE,
               raised |-> FALSE, ret |-> <<>>] : f \in {"embed", "search"}}
             \cup
             {[fault |-> "none", loaded |-> TRUE, embedded |-> TRUE,
               raised |-> FALSE, ret |-> r] : r \in SearchResults(d.entries, k)})

-----------------------------------------------------------------------------
(* subagents/event_summary.py: retrieve_and_rerank                          *)

\* the k retrieve_and_rerank passes to the re-ranker
RerankK == 5

RECURSIVE Concat(_)
\* docs_all after the loop: the per-variant results, extended in order
Concat(results) ==
  IF Len(results) = 0 THEN <<>> ELSE results[1] \o Concat(Tail(results))

RECURSIVE DedupByDocument(_, _)
\* the deduplication keyed on the whole chunk instead of its content
DedupByDocument(docs_all, seen) ==
  IF Len(docs_all) = 0 THEN <<>>
  ELSE IF docs_all[1] \notin seen
  THEN <<docs_all[1]>> \o DedupByDocument(Tail(docs_all), seen \cup {docs_all[1]})
  ELSE DedupByDocument(Tail(docs_all), seen)

RECURSIVE Dedup(_, _)
\* lines 183-189: unique_docs, keyed on the content string
Dedup(docs_all, seen_contents) ==
  IF Len(docs_all) = 0 THEN <<>>
  ELSE LET content == docs_all[1].content
       IN IF content \notin seen_contents
          THEN <<docs_all[1]>> \o Dedup(Tail(docs_all), seen_contents \cup {content})
          ELSE Dedup(Tail(docs_all), seen_contents)

\* retrieve_and_rerank given what retrieve_by_id returned for each variant
RetrieveAndRerank(task_id, query_words, results) ==
  LET docs_all == Concat(results)
      query == AccumulateQuery(query_words)
      unique_docs == Dedup(docs_all, {})
      reranked == IF Len(unique_docs) > 0
                  THEN rerank_documents_by_similarity_simple(
                         unique_docs, Strip(query), RerankK)
                  ELSE <<>>
      top_docs == IF Len(unique_docs) > 0
                  THEN es_sort_documents_by_time(reranked, "earliest")
                  ELSE <<>>
  IN [kind |-> "pipeline", task_id |-> task_id, query_words |-> query_words,
      results |-> results, docs_all |-> docs_all, unique_docs |-> unique_docs,
      top_docs |-> top_docs, raised |-> FALSE]

SysIdle ==
  /\ data = [s \in Stories |-> <<>>]
  /\ disk = [s \in Stories |-> Absent]
  /\ op = [kind |-> "none"]

\* build_faiss_for_id(rid, data[rid], "faiss_indexes")
Build ==
  /\ op.kind = "none"
  /\ \E rid \in Stories, fault \in {"none", "embed", "save"} :
    LET r == BuildResult(rid, data[rid], fault, disk[rid])
    IN /\ disk' = [disk EXCEPT ![rid] = r.new]
       /\ op' = [kind |-> "build", rid |-> rid, docs |-> data[rid],
                 fault |-> fault, ret |-> r.ret, raised |-> r.raised,
                 vectors |-> EmbeddedVectors(data[rid], fault),
                 before |-> disk]
       /\ UNCHANGED data
       /\ UNCHANGED <<tpVars, ckVars, batVars, wk>>

\* retrieve_by_id(rid, query, "faiss_indexes", k)
Retrieve ==
  /\ op.kind = "none"
  /\ \E rid \in Stories, query \in Queries, k \in {1, RetrieveK} :
    \E o \in RetrieveOutcomes(disk[rid], k) :
      /\ op' = [kind |-> "retrieve", rid |-> rid, query |-> query, k |-> k,
                fault |-> o.fault, loaded |-> o.loaded, embedded |-> o.embedded,
                raised |-> o.raised, ret |-> o.ret]
      /\ UNCHANGED <<data, disk>>
      /\ UNCHANGED <<tpVars, ckVars, batVars, wk>>

\* the call returns to its caller; the next call can be made
Return ==
  /\ op.kind # "none"
  /\ op' = [kind |-> "none"]
  /\ UNCHANGED <<data, disk>>
  /\ UNCHANGED <<tpVars, ckVars, batVars, wk>>

-----------------------------------------------------------------------------
(* generate_report.py and generate_report_zcm.py: the batch drivers.        *)
(* A summary is a text; <<>> is the empty string.  The graph run of one     *)
(* story (agent.invoke) either raises or returns a report, which is empty   *)
(* when the merge step has swallowed a failure of the language model.        *)

\* a process_task that has not been submitted
WkNotStarted == [pc |-> "idle", vs |-> <<>>]

NoFile == [state |-> "none", records |-> <<>>]
\* open("w") has created or truncated the file and nothing was dumped
EmptyFile == [state |-> "empty", records |-> <<>>]
Written(records) == [state |-> "written", records |-> records]

ReportOf(task_id) == <<"report of ", task_id>>
\* the merged text when the influence analysis is empty
ReportOfSummary(task_id) == <<"report of ", task_id, " (summary only)">>

\* the stages of graph() that call get_response, in execution order
Stages == {"topic", "summary", "influence", "merge"}

\* agent.invoke for one story when the get_response calls of the stages in
\* fails raise: generate_topic_and_query and generate_answer let the exception
\* out of the graph; analyze_influence and merge_answer catch it and store an
\* empty influence_content / merged_content.  llm_failed is the set of stages
\* whose call was made and raised.
InvokeResult(task_id, fails) ==
  IF "topic" \in fails
  THEN [ok |-> FALSE, report |-> <<>>, llm_failed |-> {"topic"}]
  ELSE IF "summary" \in fails
  THEN [ok |-> FALSE, report |-> <<>>, llm_failed |-> {"summary"}]
  ELSE [ok |-> TRUE,
        report |-> IF "merge" \in fails THEN <<>>
                   ELSE IF "influence" \in fails THEN ReportOfSummary(task_id)
                   ELSE ReportOf(task_id),
        llm_failed |-> fails \cap {"influence", "merge"}]

\* what agent.invoke can do for one story: the runs above, and a run that
\* raises for another reason than the text-generation service
InvokeOutcomes(task_id) ==
  {InvokeResult(task_id, fails) : fails \in SUBSET Stages}
    \cup {[ok |-> FALSE, report |-> <<>>, llm_failed |-> {}]}

BatIdle ==
  /\ wk = [s \in Stories |-> WkNotStarted]
  /\ batPc = "idle" /\ driver = "none" /\ ids = <<>> /\ runs = <<>>
  /\ reports = <<>> /\ results_map = <<>> /\ failed_ids = <<>>
  /\ pending = {} /\ result_file = NoFile /\ batRaised = FALSE

\* generate_report.py lines 66-90: one iteration of "for task_id in ids"
SeqIterate ==
  /\ batPc = "seq"
  /\ Len(runs) < Len(ids)
  /\ \E o \in InvokeOutcomes(ids[Len(runs) + 1]) :
       /\ runs' = Append(runs, o)
       /\ IF o.ok
          THEN reports' = Append(reports, o.report) /\ UNCHANGED failed_ids
          ELSE failed_ids' = Append(failed_ids, ids[Len(runs) + 1]) /\ UNCHANGED reports
  /\ UNCHANGED <<batPc, driver, ids, results_map, pending, result_file, batRaised>>
  /\ UNCHANGED <<tpVars, ckVars, sysVars, wk>>

\* generate_report.py line 95: [{"id": ids[i], "summary": reports[i]} for i
\* in range(0, len(ids))]
SeqRecords(the_ids, the_reports) ==
  [i \in 1..Len(the_ids) |-> [id |-> the_ids[i], summary |-> the_reports[i]]]

\* generate_report.py lines 92-95: the loop has ended; the file is opened for
\* writing and the list is built inside the with block, where reports[i]
\* raises IndexError as soon as one id has failed
SeqWrite ==
  /\ batPc = "seq"
  /\ Len(runs) = Len(ids)
  /\ IF Len(reports) < Len(ids)
     THEN result_file' = EmptyFile /\ batRaised' = TRUE
     ELSE result_file' = Written(SeqRecords(ids, reports)) /\ UNCHANGED batRaised
  /\ batPc' = "done"
  /\ UNCHANGED <<driver, ids, runs, reports, results_map, failed_ids, pending>>
  /\ UNCHANGED <<tpVars, ckVars, sysVars, wk>>

\* dict assignment m[key] = value
DictSet(m, key, value) ==
  [x \in DOMAIN m \cup {key} |-> IF x = key THEN value ELSE m[x]]

\* process_task(task_id, documents) of generate_report_zcm.py: the index is
\* built when its path does not exist, then the graph runs; any exception
\* becomes (task_id, str(e), False).  The result is what the task returns
\* and what it leaves at the story's index path.
ProcessTaskOutcomes(task_id, documents, old) ==
  LET builds == IF old.state = "absent"
                THEN {BuildResult(task_id, documents, f, old) :
                        f \in {"none", "embed", "save"}}
                ELSE {[ret |-> IndexPath(task_id), raised |-> FALSE, new |-> old]}
  IN UNION {IF b.raised
            THEN {[ok |-> FALSE, report |-> <<>>, llm_failed |-> {}, new |-> b.new]}
            ELSE {[ok |-> o.ok, report |-> o.report, llm_failed |-> o.llm_failed,
                   new |-> b.new] :
                    o \in InvokeOutcomes(task_id)} : b \in builds}

\* generate_report_zcm.py lines 108-122: one future completes and the
\* as_completed loop records it
ZcmComplete ==
  /\ batPc = "zcm"
  /\ \E i \in pending :
       \E o \in ProcessTaskOutcomes(ids[i], data[ids[i]], disk[ids[i]]) :
         /\ disk' = [disk EXCEPT ![ids[i]] = o.new]
         /\ runs' = [runs EXCEPT ![i] = [ok |-> o.ok, report |-> o.report,
                                         llm_failed |-> o.llm_failed]]
         /\ IF o.ok
            THEN /\ results_map' = DictSet(results_map, ids[i], o.report)
                 /\ UNCHANGED failed_ids
            ELSE /\ failed_ids' = Append(failed_ids, ids[i])
                 /\ results_map' = DictSet(results_map, ids[i], <<>>)
         /\ pending' = pending \ {i}
  /\ UNCHANGED <<batPc, driver, ids, reports, result_file, batRaised>>
  /\ UNCHANGED <<data, op>>
  /\ UNCHANGED <<tpVars, ckVars, wk>>

\* results_map.get(task_id, "")
DictGet(m, key) == IF key \in DOMAIN m THEN m[key] ELSE <<>>

\* generate_report_zcm.py lines 128-135: final_output
ZcmRecords(the_ids, the_map) ==
  [i \in 1..Len(the_ids) |-> [id |-> the_ids[i], summary |-> DictGet(the_map, the_ids[i])]]

\* generate_report_zcm.py lines 124-138: every future has completed
ZcmWrite ==
  /\ batPc = "zcm"
  /\ pending = {}
  /\ result_file' = Written(ZcmRecords(ids, results_map))
  /\ batPc' = "done"
  /\ UNCHANGED <<driver, ids, runs, reports, results_map, failed_ids, pending, batRaised>>
  /\ UNCHANGED <<tpVars, ckVars, sysVars, wk>>

-----------------------------------------------------------------------------
(* indexing.py: aggregate_embeddings.  Python floats are binary floating   *)
(* point numbers rounded to nearest, ties to even.  A float is modelled as  *)
(* an integer count of the smallest representable unit, with MantissaBits   *)
(* significant bits; the exponent range is unbounded above, the inputs      *)
(* being far from overflow.                                                  *)

MantissaBits == 3
MaxDim == 2
MaxVectors == 2

\* the vector components tried: floats, some sums of which are not floats
InputFloats == {0 - 3, 1, 6}

RECURSIVE Pow2(_)
Pow2(k) == IF k <= 0 THEN 1 ELSE 2 * Pow2(k - 1)

RECURSIVE ShiftFor(_, _, _)
\* the exponent of the unit in which a / den has MantissaBits bits
ShiftFor(a, den, sh) ==
  IF a < Pow2(MantissaBits + sh) * den THEN sh ELSE ShiftFor(a, den, sh + 1)

\* q units, or q + 1 when the remainder r of unit u rounds up (ties to even)
RoundUnits(q, r, u) ==
  IF 2 * r > u \/ (2 * r = u /\ q % 2 = 1) THEN q + 1 ELSE q

\* a / den (a >= 0, den > 0) rounded to a float, given the unit's exponent
RoundAt(a, den, sh) ==
  RoundUnits(a \div (den * Pow2(sh)), a % (den * Pow2(sh)), den * Pow2(sh)) * Pow2(sh)

\* the float nearest to num / den (den > 0)
RoundF(num, den) ==
  IF num < 0 THEN 0 - RoundAt(0 - num, den, ShiftFor(0 - num, den, 0))
  ELSE RoundAt(num, den, ShiftFor(num, den, 0))

\* x is a float
Representable(x) == RoundF(x, 1) = x

\* float addition and float division by an int
FAdd(a, b) == RoundF(a + b, 1)
FDiv(a, n) == RoundF(a, n)

RECURSIVE ColumnAcc(_, _, _)
\* acc[i] after "acc[i] += v[i]" for the first k vectors, acc[i] = 0.0 at first
ColumnAcc(vs, i, k) ==
  IF k = 0 THEN 0 ELSE FAdd(ColumnAcc(vs, i, k - 1), vs[k][i])

\* aggregate_embeddings without the division by len(vs)
aggregate_embeddings_sum(vs) ==
  IF Len(vs) = 0 THEN <<>>
  ELSE [i \in 1..Len(vs[1]) |-> ColumnAcc(vs, i, Len(vs))]

\* aggregate_embeddings on vectors that are all at least as long as vs[0]
aggregate_embeddings(vs) ==
  IF Len(vs) = 0 THEN <<>>
  ELSE [i \in 1..Len(vs[1]) |-> FDiv(ColumnAcc(vs, i, Len(vs)), Len(vs))]

\* v[i] raises IndexError for a vector shorter than dim = len(vs[0])
AggregateRaises(vs) == \E k \in 1..Len(vs) : Len(vs[k]) < Len(vs[1])

\* aggregate_embeddings(vs)
Aggregate ==
  /\ op.kind = "none"
  /\ \E vs \in SeqsUpTo(SeqsUpTo(InputFloats, MaxDim), MaxVectors) :
       op' = [kind |-> "aggregate", vs |-> vs,
              raised |-> AggregateRaises(vs),
              ret |-> IF AggregateRaises(vs) THEN <<>> ELSE aggregate_embeddings(vs)]
  /\ UNCHANGED <<data, disk>>
  /\ UNCHANGED <<tpVars, ckVars, batVars, wk>>

-----------------------------------------------------------------------------
(* generate_report_zcm.py: the worker pool.  Every submitted process_task   *)
(* runs on its own thread; the steps of its index build interleave with the *)
(* steps of the other tasks.  texts, metas and the FAISS object vs are      *)
(* locals of the call; the directories under faiss_indexes are shared.       *)

\* the directory build_faiss_for_id(rid, ...) writes, as the story it
\* belongs to
OutDirShared(rid) == "s1"
OutDir(rid) == rid

\* the story a worker's process_task was submitted for: the task of its
\* record, or the worker's own key when the workers are keyed by story
TaskOf(w) == IF "task" \in DOMAIN wk[w] THEN wk[w].task ELSE w

\* lines 61-64 of process_task: index_path; os.path.exists(index_path)
WkStart(s) ==
  /\ wk[s].pc = "idle"
  /\ wk' = [wk EXCEPT ![s].pc = IF disk[TaskOf(s)].state = "absent" THEN "filter" ELSE "graph"]
  /\ UNCHANGED <<data, disk, op>>
  /\ UNCHANGED <<tpVars, ckVars, batVars>>

\* build_faiss_for_id lines 132-146: texts and metas from the task's own
\* documents; "" is returned when there are none
WkFilter(s) ==
  /\ wk[s].pc = "filter"
  /\ wk' = [wk EXCEPT ![s].pc =
              IF Len(BuildEntries(TaskOf(s), data[TaskOf(s)])) = 0
              THEN "graph" ELSE "embed"]
  /\ UNCHANGED <<data, disk, op>>
  /\ UNCHANGED <<tpVars, ckVars, batVars>>

\* line 147: FAISS.from_texts embeds the texts and makes the in-memory
\* index, or the embedding service fails and the task ends
WkEmbed(s) ==
  /\ wk[s].pc = "embed"
  /\ \/ wk' = [wk EXCEPT ![s].pc = "makedirs",
                           ![s].vs = BuildEntries(TaskOf(s), data[TaskOf(s)])]
     \/ wk' = [wk EXCEPT ![s].pc = "failed"]
  /\ UNCHANGED <<data, disk, op>>
  /\ UNCHANGED <<tpVars, ckVars, batVars>>

\* lines 148-149: os.makedirs(out_dir, exist_ok=True)
WkMakedirs(s) ==
  /\ wk[s].pc = "makedirs"
  /\ wk' = [wk EXCEPT ![s].pc = "save"]
  /\ disk' = [disk EXCEPT ![OutDir(TaskOf(s))] =
                 IF disk[OutDir(TaskOf(s))].state = "absent" THEN BrokenDir ELSE @]
  /\ UNCHANGED <<data, op>>
  /\ UNCHANGED <<tpVars, ckVars, batVars>>

\* line 150: vs.save_local(out_dir), or it fails and the task ends
WkSave(s) ==
  /\ wk[s].pc = "save"
  /\ \/ /\ disk' = [disk EXCEPT ![OutDir(TaskOf(s))] = Saved(wk[s].vs)]
        /\ wk' = [wk EXCEPT ![s].pc = "graph"]
     \/ /\ wk' = [wk EXCEPT ![s].pc = "failed"]
        /\ UNCHANGED disk
  /\ UNCHANGED <<data, op>>
  /\ UNCHANGED <<tpVars, ckVars, batVars>>

-----------------------------------------------------------------------------
(* SpecTP: the functions of time_processor.py and the re-ranker applied to  *)
(* bounded inputs.  Each action is one call: it draws the arguments and     *)
(* records the returned value.                                              *)

MaxChunks == 3
MaxRerankDocs == 3
MaxK == 2

Chunk(t, d) == [content |-> t, metadata |-> [id |-> "s1", doc_id |-> d]]

ChunkTexts == {TextIsoJan, TextSlashJun, TextPlain, TextTwoDates}
DocIds == {"d1", "d2", "d3"}
ChunkUniverse == {Chunk(t, d) : t \in ChunkTexts, d \in DocIds \cup {NoDocId}}
RerankUniverse ==
  {Chunk(t, d) : t \in {TextIsoJan, TextPlain, TextPlain2, TextEmpty}, d \in {"d1", "d2"}}


TpIdle ==
  /\ tpPc = "input" /\ tpText = <<>> /\ tpChunks = <<>> /\ tpQuery = <<>>
  /\ tpK = 0 /\ tpSortBy = "earliest" /\ tpOut = <<>>

TpExtract ==
  /\ tpPc = "input"
  /\ \E t \in ExtractTexts :
       /\ tpText' = t
       /\ tpOut' = DatesOfText(t)
  /\ tpPc' = "extracted"
  /\ UNCHANGED <<tpChunks, tpQuery, tpK, tpSortBy>>
  /\ UNCHANGED <<ckVars, sysVars, batVars, wk>>

TpRerank ==
  /\ tpPc = "input"
  /\ \E docs \in SeqsUpTo(RerankUniverse, MaxRerankDocs), q \in Queries, k \in 0..MaxK :
       /\ tpChunks' = docs
       /\ tpQuery' = q
       /\ tpK' = k
       /\ tpOut' = rerank_positions(docs, q, k)
  /\ tpPc' = "reranked"
  /\ UNCHANGED <<tpText, tpSortBy>>
  /\ UNCHANGED <<ckVars, sysVars, batVars, wk>>

TpEnhance ==
  /\ tpPc = "input"
  /\ \E chunks \in SeqsUpTo(ChunkUniverse, MaxChunks), sb \in {"earliest", "latest"} :
       /\ tpChunks' = chunks
       /\ tpSortBy' = sb
       /\ tpOut' = enhance_retrieval_with_time_sorting(chunks, sb)
  /\ tpPc' = "enhanced"
  /\ UNCHANGED <<tpText, tpQuery, tpK>>
  /\ UNCHANGED <<ckVars, sysVars, batVars, wk>>

\* sort_documents_by_time(documents, sort_by) of event_summary.py and of
\* time_sorting_utils.py, called with raw retrieved chunks
TpSortWrapper ==
  /\ tpPc = "input"
  /\ \E chunks \in SeqsUpTo(ChunkUniverse, MaxChunks), sb \in {"earliest", "latest"} :
       /\ tpChunks' = chunks
       /\ tpSortBy' = sb
       /\ tpOut' = es_sort_documents_by_time(chunks, sb)
  /\ tpPc' = "wrapped"
  /\ UNCHANGED <<tpText, tpQuery, tpK>>
  /\ UNCHANGED <<ckVars, sysVars, batVars, wk>>

\* TimeProcessor.merge_chunks_for_document(chunks) on a list of chunks
TpMerge ==
  /\ tpPc = "input"
  /\ \E chunks \in SeqsUpTo(ChunkUniverse, MaxChunks) :
       /\ tpChunks' = chunks
       /\ tpOut' = merge_chunks_for_document(chunks)
  /\ tpPc' = "merged"
  /\ UNCHANGED <<tpText, tpQuery, tpK, tpSortBy>>
  /\ UNCHANGED <<ckVars, sysVars, batVars, wk>>

\* TimeProcessor.group_chunks_by_document(chunks)
TpGroup ==
  /\ tpPc = "input"
  /\ \E chunks \in SeqsUpTo(ChunkUniverse, MaxChunks) :
       /\ tpChunks' = chunks
       /\ tpOut' = group_chunks_by_document(chunks)
  /\ tpPc' = "grouped"
  /\ UNCHANGED <<tpText, tpQuery, tpK, tpSortBy>>
  /\ UNCHANGED <<ckVars, sysVars, batVars, wk>>

\* the call returns; the next call starts from fresh arguments
TpReturn ==
  /\ tpPc # "input"
  /\ tpPc' = "input" /\ tpText' = <<>> /\ tpChunks' = <<>> /\ tpQuery' = <<>>
  /\ tpK' = 0 /\ tpSortBy' = "earliest" /\ tpOut' = <<>>
  /\ UNCHANGED <<ckVars, sysVars, batVars, wk>>

InitTP == TpIdle /\ CkIdle /\ SysIdle /\ BatIdle
NextTP ==
  TpExtract \/ TpRerank \/ TpEnhance \/ TpSortWrapper \/ TpMerge \/ TpGroup \/ TpReturn
SpecTP == InitTP /\ [][NextTP]_vars

-----------------------------------------------------------------------------
(* Properties of the time processor and the re-ranker (SpecTP) *)

\* C3: the output of enhance_retrieval_with_time_sorting with
\* sort_by = 'earliest' has every dated document before every dateless one,
\* the dated ones in non-decreasing earliest_date order, time_rank of the
\* i-th document equal to i, and has_time_info true exactly when
\* earliest_date is not null.
C3_TimeSortCorrect ==
  (tpPc = "enhanced" /\ tpSortBy = "earliest") =>
    /\ \A i, j \in 1..Len(tpOut) :
         (i < j /\ tpOut[j].earliest_date # None) =>
           /\ tpOut[i].earliest_date # None
           /\ DtLeq(tpOut[i].earliest_date, tpOut[j].earliest_date)
    /\ \A i \in 1..Len(tpOut) :
         /\ tpOut[i].time_rank = i
         /\ tpOut[i].has_time_info = (tpOut[i].earliest_date # None)

\* three documents retrieved as [undated, June, January] come out as
\* [2023-01-01, 2023-06-01, null] with ranks [1, 2, 3]
C3_Witness ==
  /\ tpPc = "enhanced" /\ tpSortBy = "earliest"
  /\ tpChunks = <<Chunk(TextPlain, "d3"), Chunk(TextSlashJun, "d2"), Chunk(TextIsoJan, "d1")>>
  /\ [i \in 1..Len(tpOut) |-> tpOut[i].earliest_date]
       = <<Date(2023, 1, 1), Date(2023, 6, 1), None>>
  /\ [i \in 1..Len(tpOut) |-> tpOut[i].time_rank] = <<1, 2, 3>>
  /\ [i \in 1..Len(tpOut) |-> tpOut[i].has_time_info] = <<TRUE, TRUE, FALSE>>

\* the merged documents enhance_retrieval_with_time_sorting sorts, in the
\* order it hands them to the sort
MergedInput == MergeGroups(group_chunks_by_document(tpChunks))

\* C13: when no merged document has a date, the sort (for either sort_by)
\* returns the documents in exactly the input order, and
\* enhance_retrieval_with_time_sorting marks every one has_time_info = false.
C13_DatelessOrderKept ==
  (/\ tpPc = "enhanced"
   /\ \A i \in 1..Len(MergedInput) : MergedInput[i].earliest_date = None) =>
    /\ Len(tpOut) = Len(MergedInput)
    /\ \A i \in 1..Len(tpOut) :
         /\ tpOut[i].content = MergedInput[i].content
         /\ tpOut[i].metadata = MergedInput[i].metadata
         /\ tpOut[i].chunk_count = MergedInput[i].chunk_count
         /\ tpOut[i].has_time_info = FALSE

\* three dateless documents sorted by 'latest' keep their order
C13_Witness ==
  /\ tpPc = "enhanced" /\ tpSortBy = "latest"
  /\ tpChunks = <<Chunk(TextPlain, "d3"), Chunk(TextPlain, "d1"), Chunk(TextPlain, "d2")>>
  /\ [i \in 1..Len(tpOut) |-> tpOut[i].metadata.doc_id] = <<"d3", "d1", "d2">>
  /\ \A i \in 1..Len(tpOut) : ~tpOut[i].has_time_info

\* C4: extract_dates_from_text("事件发生在2023年5月1日") contains the date
\* 2023-05-01, and extract_dates_from_text("ts=9999999999999") yields no date.
C4_DateExtractionExamples ==
  tpPc = "extracted" =>
    /\ (tpText = TextCnInline => Date(2023, 5, 1) \in Range(tpOut))
    /\ (tpText = TextTsBig => tpOut = <<>>)

\* C5: the re-ranker returns chunks[:k] when chunks or query is empty, and
\* otherwise the first k chunks of the stable descending sort by similarity;
\* the result has length min(k, len(chunks)) and holds input chunks only,
\* each at most once.
C5_Rerank ==
  tpPc = "reranked" =>
    LET n == Len(tpChunks)
        score(i) == SimilarityOf(tpQuery, tpChunks[i].content)
        \* i is ranked before j: higher score, or equal score and earlier
        Before(i, j) == \/ FracLess(score(j), score(i))
                        \/ (~FracLess(score(i), score(j)) /\ i < j)
    IN /\ Len(tpOut) = Min(tpK, n)
       /\ \A p \in 1..Len(tpOut) : tpOut[p] \in 1..n
       /\ \A p, r \in 1..Len(tpOut) : p # r => tpOut[p] # tpOut[r]
       /\ (n = 0 \/ tpQuery = <<>>) => tpOut = [p \in 1..Min(tpK, n) |-> p]
       /\ (n # 0 /\ tpQuery # <<>>) =>
            /\ \A p, r \in 1..Len(tpOut) : p < r => Before(tpOut[p], tpOut[r])
            /\ \A i \in 1..n :
                 i \notin Range(tpOut) =>
                   \A p \in 1..Len(tpOut) : Before(tpOut[p], i)

\* a scored call that reorders, truncates and breaks a tie by input order
C5_Witness ==
  /\ tpPc = "reranked" /\ tpQuery = QueryBq /\ tpK = 2
  /\ tpChunks = <<Chunk(TextPlain, "d1"), Chunk(TextPlain2, "d1"), Chunk(TextPlain2, "d2")>>
  /\ tpOut = <<2, 3>>

-----------------------------------------------------------------------------
(* SpecChunk: chunk_text called on every bounded input, run to its return.  *)
(* The function runs on one thread that is never descheduled forever, so    *)
(* its steps are weakly fair.                                               *)

MaxTokens == 6
MaxChunkSize == 4
MaxOverlap == 5
MinChunkParam == 2

InitChunk ==
  /\ TpIdle /\ SysIdle /\ BatIdle
  /\ ckPc = "enter"
  /\ ckN \in 0..MaxTokens
  /\ ckSize \in (0 - MinChunkParam)..MaxChunkSize
  /\ ckOverlap \in (0 - MinChunkParam)..MaxOverlap
  /\ ckStart = 0 /\ ckStep = 0 /\ ckOut = <<>> /\ ckIters = 0

NextChunk == CkEnter \/ CkIterate \/ CkExit
SpecChunk == InitChunk /\ [][NextChunk]_vars /\ WF_vars(NextChunk)

\* C6 as stated: for any token sequence and any chunk_size >= overlap >= 0
\* the spans of the returned chunks cover every token position of the input
\* with no gap.
Covered == UNION {ckOut[i][1] .. (ckOut[i][2] - 1) : i \in 1..Len(ckOut)}

C6_CoverageAsStated ==
  (ckPc = "done" /\ ckSize >= ckOverlap /\ ckOverlap >= 0) =>
    Covered = 0 .. (ckN - 1)

\* C6 amended: for chunk_size >= 1 and chunk_size >= overlap >= 0 the spans of
\* the returned chunks, in order, start at the first token, end at the last,
\* and each starts no later than where its predecessor ended, so their union
\* is the whole token span.
C6_Coverage ==
  (ckPc = "done" /\ ckSize >= 1 /\ ckSize >= ckOverlap /\ ckOverlap >= 0) =>
    /\ Covered = 0 .. (ckN - 1)
    /\ Len(ckOut) >= 1
    /\ ckOut[1][1] = 0
    /\ ckOut[Len(ckOut)][2] = ckN
    /\ \A i \in 1..(Len(ckOut) - 1) :
         /\ ckOut[i + 1][1] <= ckOut[i][2]
         /\ ckOut[i + 1][1] > ckOut[i][1]

\* a text longer than the window, chunked with an overlap into several chunks
C6_Witness ==
  /\ ckPc = "done" /\ ckN = 6 /\ ckSize = 3 /\ ckOverlap = 1
  /\ ckOut = <<<<0, 3>>, <<2, 5>>, <<4, 6>>>>

\* C7: chunk_text terminates for every text and every integer chunk_size and
\* chunk_overlap: it returns, the window start strictly increases on every
\* loop iteration that continues, and the loop runs at most len(tokens) times.
C7_Terminates ==
  /\ <>(ckPc = "done")
  /\ [][(ckPc = "loop" /\ ckPc' = "loop") => ckStart' > ckStart]_vars
  /\ [](ckIters <= ckN)

\* the stride is clamped to 1 (overlap >= chunk_size) and the loop still ends
C7_Witness ==
  /\ ckPc = "done" /\ ckOverlap >= ckSize /\ ckSize = 2 /\ ckN = 5
  /\ ckStep = 1 /\ ckIters = 4

-----------------------------------------------------------------------------
(* SpecBuild: index builds over a dataset.  Story s1 has any list of up to  *)
(* MaxDocs documents, story s2 one of two fixed lists.                       *)

MaxDocs == 2

Doc(d, t) == [doc_id |-> d, text |-> t]
DocUniverse ==
  {Doc(d, t) : d \in {"d1", "d2", ""},
               t \in {TextIsoJan, TextPlain, TextPlain2, TextEmpty}}

InitBuild ==
  /\ TpIdle /\ CkIdle /\ BatIdle
  /\ \E docs1 \in SeqsUpTo(DocUniverse, MaxDocs),
        docs2 \in {<<>>, <<Doc("d1", TextPlain)>>} :
       data = [s \in Stories |-> IF s = "s1" THEN docs1 ELSE docs2]
  /\ disk = [s \in Stories |-> Absent]
  /\ op = [kind |-> "none"]

NextBuild == Build \/ Return
SpecBuild == InitBuild /\ [][NextBuild]_vars

\* C8: build_faiss_for_id indexes exactly the documents with a non-empty
\* doc_id and a non-empty text, one per distinct doc_id (the first such
\* document in input order), in input order; when no document survives it
\* returns the empty handle and writes nothing to the story's index path.
C8_BuildFilter ==
  op.kind = "build" =>
    LET docs == op.docs
        Valid(i) == docs[i].doc_id # "" /\ docs[i].text # <<>>
        Kept(i) == /\ Valid(i)
                   /\ \A j \in 1..(i - 1) : ~(Valid(j) /\ docs[j].doc_id = docs[i].doc_id)
        kept == {i \in 1..Len(docs) : Kept(i)}
        entries == disk[op.rid].entries
    IN /\ (kept = {}) =>
            /\ op.ret = EmptyHandle /\ ~op.raised
            /\ disk[op.rid] = op.before[op.rid]
       /\ (kept # {} /\ ~op.raised) =>
            /\ op.ret = IndexPath(op.rid)
            /\ disk[op.rid].state = "index"
            /\ Len(entries) = Cardinality(kept)
            /\ \E f \in [1..Len(entries) -> kept] :
                 /\ \A a, b \in 1..Len(entries) : a < b => f[a] < f[b]
                 /\ \A a \in 1..Len(entries) :
                      /\ entries[a].content = docs[f[a]].text
                      /\ entries[a].metadata = [id |-> op.rid, doc_id |-> docs[f[a]].doc_id]

\* an invalid document does not shadow the valid one with the same doc_id,
\* and a repeated doc_id is indexed once
C8_Witness ==
  /\ op.kind = "build" /\ op.rid = "s1" /\ ~op.raised
  /\ op.docs = <<Doc("d1", TextEmpty), Doc("d1", TextPlain)>>
  /\ disk["s1"] = Saved(<<[content |-> TextPlain,
                           metadata |-> [id |-> "s1", doc_id |-> "d1"]]>>)

\* no document survives: the empty handle, and nothing written
C8_WitnessEmpty ==
  /\ op.kind = "build" /\ op.rid = "s1"
  /\ op.docs = <<Doc("", TextPlain), Doc("d1", TextEmpty)>>
  /\ op.ret = EmptyHandle /\ disk["s1"] = Absent

\* the result sets a search for k neighbours can return on these entries
ResultSets(entries, k) == {Range(r) : r \in SearchResults(entries, k)}

-----------------------------------------------------------------------------
(* SpecRetrieve: retrievals and orchestrator runs over story indexes that   *)
(* builds have left on disk.                                                 *)

\* what a story's path can hold after builds of up to MaxDocs documents
DiskStates(rid) ==
  {Absent, BrokenDir}
    \cup {Saved(BuildEntries(rid, docs)) :
            docs \in {d \in SeqsUpTo(DocUniverse, MaxDocs) : Len(BuildEntries(rid, d)) > 0}}

InitRetrieve ==
  /\ TpIdle /\ CkIdle /\ BatIdle
  /\ data = [s \in Stories |-> <<>>]
  /\ \E d1 \in DiskStates("s1"), d2 \in {Absent, Saved(BuildEntries("s2", <<Doc("d1", TextPlain)>>))} :
       disk = [s \in Stories |-> IF s = "s1" THEN d1 ELSE d2]
  /\ op = [kind |-> "none"]

\* retrieve_and_rerank(state) with task_id and query_words from the state
Pipeline ==
  /\ op.kind = "none"
  /\ \E task_id \in Stories, query_words \in SeqsUpTo(QueryWordUniverse, MaxWords) :
    \E outs \in [1..Len(query_words) -> RetrieveOutcomes(disk[task_id], RetrieveK)] :
      /\ op' = RetrieveAndRerank(task_id, query_words,
                                 [i \in 1..Len(query_words) |-> outs[i].ret])
      /\ UNCHANGED <<data, disk>>
      /\ UNCHANGED <<tpVars, ckVars, batVars, wk>>

NextRetrieve == Retrieve \/ Pipeline \/ Return
SpecRetrieve == InitRetrieve /\ [][NextRetrieve]_vars

\* C1 as stated: the result is the temporal annotation (sort_by='earliest')
\* of the re-ranking (k=5) against the space-joined concatenation of the
\* variants of the content-deduplicated concatenation of the per-variant
\* retriever results; with no variant or no chunk the result is empty and
\* nothing is raised.
C1_PipelineAsStated ==
  op.kind = "pipeline" =>
    /\ op.top_docs =
         enhance_retrieval_with_time_sorting(
           rerank_documents_by_similarity_simple(
             Dedup(Concat(op.results), {}), JoinSpace(op.query_words), RerankK),
           "earliest")
    /\ ~op.raised
    /\ (Len(op.query_words) = 0 \/ \A i \in 1..Len(op.results) : op.results[i] = <<>>)
         => op.top_docs = <<>>

\* C1 amended: as stated, with the re-ranking query being the space-joined
\* concatenation of the variants with leading and trailing whitespace
\* stripped.
C1_Pipeline ==
  op.kind = "pipeline" =>
    /\ op.top_docs =
         enhance_retrieval_with_time_sorting(
           rerank_documents_by_similarity_simple(
             Dedup(Concat(op.results), {}), Strip(JoinSpace(op.query_words)), RerankK),
           "earliest")
    /\ ~op.raised
    /\ (Len(op.query_words) = 0 \/ \A i \in 1..Len(op.results) : op.results[i] = <<>>)
         => op.top_docs = <<>>

\* two variants, both answered, duplicates collapsed, the survivors
\* re-ranked and then ordered by time
C1_Witness ==
  /\ op.kind = "pipeline" /\ Len(op.query_words) = 2
  /\ Len(op.results[1]) = 2 /\ Len(op.results[2]) = 2
  /\ Len(op.top_docs) = 2
  /\ op.top_docs[1].has_time_info /\ ~op.top_docs[2].has_time_info
  /\ op.unique_docs[1].content = op.top_docs[2].content

\* C2: after the deduplication no two survivors have the same content, every
\* content of the concatenated results survives exactly once, and each
\* survivor is the first chunk with its content, in concatenation order.
C2_Dedup ==
  op.kind = "pipeline" =>
    LET all == op.docs_all
        u == op.unique_docs
        First(i) == \A j \in 1..(i - 1) : all[j].content # all[i].content
        firsts == {i \in 1..Len(all) : First(i)}
    IN /\ \A a, b \in 1..Len(u) : a # b => u[a].content # u[b].content
       /\ {u[a].content : a \in 1..Len(u)} = {all[i].content : i \in 1..Len(all)}
       /\ Len(u) = Cardinality(firsts)
       /\ \E f \in [1..Len(u) -> firsts] :
            /\ \A a, b \in 1..Len(u) : a < b => f[a] < f[b]
            /\ \A a \in 1..Len(u) : u[a] = all[f[a]]

\* two chunks of different documents with the same content, retrieved by
\* two variants in different orders, collapse to the first one
C2_Witness ==
  /\ op.kind = "pipeline" /\ Len(op.docs_all) = 4 /\ Len(op.unique_docs) = 1
  /\ op.docs_all[1].metadata.doc_id # op.docs_all[2].metadata.doc_id
  /\ op.docs_all[3] = op.docs_all[2]
  /\ op.unique_docs[1] = op.docs_all[1]

\* C9: retrieve_by_id never raises; with no index for the story it returns []
\* without loading an index or calling the embedding service; it returns []
\* when loading, embedding or searching fails; otherwise it returns at most k
\* chunks, each with content and metadata.
C9_RetrieveNeverRaises ==
  op.kind = "retrieve" =>
    /\ ~op.raised
    /\ disk[op.rid].state = "absent" =>
         (op.ret = <<>> /\ ~op.loaded /\ ~op.embedded)
    /\ op.fault # "none" => op.ret = <<>>
    /\ Len(op.ret) <= op.k
    /\ \A i \in 1..Len(op.ret) : DOMAIN op.ret[i] = {"content", "metadata"}
    /\ (op.fault = "none" /\ disk[op.rid].state = "index") =>
         /\ Len(op.ret) = Min(op.k, Len(disk[op.rid].entries))
         /\ \A i \in 1..Len(op.ret) : op.ret[i] \in Range(disk[op.rid].entries)

\* a failing embedding call is swallowed
C9_Witness ==
  /\ op.kind = "retrieve" /\ op.fault = "embed" /\ op.ret = <<>> /\ ~op.raised
  /\ disk[op.rid].state = "index"

-----------------------------------------------------------------------------
(* SpecBatch: one batch run of either driver over distinct story ids.       *)

\* the lists of distinct story ids
IdLists ==
  {l \in SeqsUpTo(Stories, Cardinality(Stories)) :
     \A i, j \in 1..Len(l) : i # j => l[i] # l[j]}

\* a run that has not ended yet
NotRun == [ok |-> FALSE, report |-> <<>>, llm_failed |-> {}]

InitBatch ==
  /\ TpIdle /\ CkIdle
  /\ \E docs1 \in {<<>>, <<Doc("d1", TextPlain)>>, <<Doc("d1", TextPlain), Doc("d2", TextIsoJan)>>},
        docs2 \in {<<>>, <<Doc("d1", TextPlain)>>} :
       data = [s \in Stories |-> IF s = "s1" THEN docs1 ELSE docs2]
  /\ \E d1 \in {Absent, Saved(BuildEntries("s1", <<Doc("d1", TextPlain)>>))} :
       disk = [s \in Stories |-> IF s = "s1" THEN d1 ELSE Absent]
  /\ op = [kind |-> "none"]
  /\ driver \in {"seq", "zcm"}
  /\ batPc = driver
  /\ wk = [s \in Stories |-> WkNotStarted]
  /\ ids \in IdLists
  /\ runs = IF driver = "seq" THEN <<>> ELSE [i \in 1..Len(ids) |-> NotRun]
  /\ reports = <<>> /\ results_map = <<>> /\ failed_ids = <<>>
  /\ pending = IF driver = "zcm" THEN 1..Len(ids) ELSE {}
  /\ result_file = NoFile /\ batRaised = FALSE

NextBatch == SeqIterate \/ SeqWrite \/ ZcmComplete \/ ZcmWrite
SpecBatch == InitBatch /\ [][NextBatch]_vars

\* the result list the batch contract asks for
ResultListCorrect ==
  /\ ~batRaised
  /\ result_file.state = "written"
  /\ Len(result_file.records) = Len(ids)
  /\ \A i \in 1..Len(ids) :
       /\ result_file.records[i].id = ids[i]
       /\ runs[i].ok => result_file.records[i].summary = runs[i].report
       /\ ~runs[i].ok => /\ result_file.records[i].summary = <<>>
                         /\ ids[i] \in Range(failed_ids)

\* C10: when a batch run has ended, result.json holds exactly one record per
\* requested id in request order; the record of an id carries the report its
\* pipeline produced if it succeeded and an empty summary if it failed, and
\* every failed id is in the failed-id list.
C10_BatchResultList ==
  batPc = "done" => ResultListCorrect

\* C10 for generate_report_zcm.py alone: the concurrent driver keeps the
\* contract
C10_ConcurrentDriver ==
  (batPc = "done" /\ driver = "zcm") => ResultListCorrect

\* the concurrent driver has ended a batch of two stories, one of which failed
C10_ConcurrentWitness ==
  /\ batPc = "done" /\ driver = "zcm" /\ Len(ids) = 2
  /\ runs[1].ok /\ ~runs[2].ok /\ failed_ids = <<ids[2]>>

\* C11: whenever a text-generation call fails in a stage of a story's
\* pipeline (topic/query generation, summary generation, influence analysis,
\* answer merge), the story's id is in the failed-id list when the batch has
\* ended, and every story of the batch has been processed.
C11_LlmFailureRecorded ==
  (batPc = "done" /\ driver = "zcm") =>
    /\ pending = {}
    /\ \A i \in 1..Len(ids) :
         runs[i].llm_failed # {} => ids[i] \in Range(failed_ids)

\* the failures that leave the graph are recorded and do not stop the batch
C11_PropagatedFailureRecorded ==
  (batPc = "done" /\ driver = "zcm") =>
    /\ pending = {}
    /\ \A i \in 1..Len(ids) :
         (runs[i].llm_failed \cap {"topic", "summary"}) # {} =>
            ids[i] \in Range(failed_ids)

-----------------------------------------------------------------------------
(* SpecAgg: aggregate_embeddings on lists of up to MaxVectors vectors of up *)
(* to MaxDim components.                                                      *)

InitAgg == TpIdle /\ CkIdle /\ SysIdle /\ BatIdle
NextAgg == Aggregate \/ Return
SpecAgg == InitAgg /\ [][NextAgg]_vars

\* the exact sum of component i over the vectors
RECURSIVE ExactSum(_, _, _)
ExactSum(vs, i, k) == IF k = 0 THEN 0 ELSE ExactSum(vs, i, k - 1) + vs[k][i]

\* C12: aggregate_embeddings returns the element-wise mean: aggregate([]) = [],
\* aggregate([v]) = v, aggregate([v, v]) = v, and for equal-length inputs the
\* output has the length of each input and, wherever the sums and the mean
\* are floats, component i is the mean of the components i.
C12_AggregateMean ==
  op.kind = "aggregate" =>
    LET vs == op.vs
        n == Len(vs)
    IN /\ n = 0 => (op.ret = <<>> /\ ~op.raised)
       /\ n = 1 => (op.ret = vs[1] /\ ~op.raised)
       /\ (n = 2 /\ vs[1] = vs[2]) => (op.ret = vs[1] /\ ~op.raised)
       /\ (n > 0 /\ \A k \in 1..n : Len(vs[k]) = Len(vs[1])) =>
            /\ ~op.raised
            /\ Len(op.ret) = Len(vs[1])
            /\ \A i \in 1..Len(vs[1]) :
                 (/\ \A k \in 1..n : Representable(ExactSum(vs, i, k))
                  /\ ExactSum(vs, i, n) % n = 0) =>
                    op.ret[i] * n = ExactSum(vs, i, n)

\* two equal vectors of two components are averaged to themselves
C12_Witness ==
  /\ op.kind = "aggregate" /\ op.vs = <<<<6, 1>>, <<6, 1>>>> /\ op.ret = <<6, 1>>

\* two different vectors are averaged
C12_WitnessMean ==
  /\ op.kind = "aggregate" /\ op.vs = <<<<6, 1>>, <<0 - 3, 1>>>>

-----------------------------------------------------------------------------
(* SpecConc: the tasks of all stories submitted to the pool at once, over a *)
(* dataset as in SpecBuild; a story's index may exist from an earlier run.   *)

InitConc ==
  /\ TpIdle /\ CkIdle /\ BatIdle
  /\ \E docs1 \in SeqsUpTo(DocUniverse, MaxDocs),
        docs2 \in {<<>>, <<Doc("d1", TextPlain)>>, <<Doc("d2", TextIsoJan), Doc("d1", TextPlain)>>} :
       data = [s \in Stories |-> IF s = "s1" THEN docs1 ELSE docs2]
  /\ \E d2 \in {Absent, Saved(BuildEntries("s2", <<Doc("d1", TextPlain)>>))} :
       disk = [s \in Stories |-> IF s = "s2" THEN d2 ELSE Absent]
  /\ op = [kind |-> "none"]

NextConc ==
  \E s \in Stories : WkStart(s) \/ WkFilter(s) \/ WkEmbed(s) \/ WkMakedirs(s) \/ WkSave(s)
SpecConc == InitConc /\ [][NextConc]_vars

\* the index the story's path holds after a build of the story on its own
SoloIndex(s) == BuildResult(s, data[s], "none", Absent).new

\* C15: with the builds of different stories interleaved in any way, a step
\* changes the index path of a story only if it is a step of that story's own
\* task, and a story whose build has completed holds exactly the index a
\* solo build of it produces.
C15_ConcurrentBuildsIsolated ==
  /\ [][\A s \in Stories : disk'[s] # disk[s] => wk'[s] # wk[s]]_vars
  /\ [](\A s \in Stories :
          (wk[s].pc = "graph" /\ wk[s].vs # <<>>) => disk[s] = SoloIndex(s))

\* both stories have built their indexes, the second one finishing first
C15_Witness ==
  /\ wk["s1"].pc = "save" /\ disk["s1"].state = "dir"
  /\ wk["s2"].pc = "graph" /\ Len(wk["s2"].vs) = 2
  /\ disk["s2"] = SoloIndex("s2")

-----------------------------------------------------------------------------
(* SpecIndex: index builds and retrievals of the stories of a small dataset, *)
(* in any order.                                                              *)

\* a text of LongWords words, more than CHUNK_SIZE tokens
LongWords == 1100
TextLong == [i \in 1..(2 * LongWords - 1) |-> IF i % 2 = 1 THEN "a" ELSE " "]

InitIndex ==
  /\ TpIdle /\ CkIdle /\ BatIdle
  /\ \E docs1 \in {<<>>, <<Doc("d1", TextPlain)>>, <<Doc("d1", TextPlain), Doc("d2", TextIsoJan)>>,
                    <<Doc("d1", TextLong)>>, <<Doc("d1", TextLong), Doc("d2", TextPlain)>>},
        docs2 \in {<<>>, <<Doc("d1", TextPlain2)>>} :
       data = [s \in Stories |-> IF s = "s1" THEN docs1 ELSE docs2]
  /\ disk = [s \in Stories |-> Absent]
  /\ op = [kind |-> "none"]

NextIndex == Build \/ Retrieve \/ Return
SpecIndex == InitIndex /\ [][NextIndex]_vars

\* the build or the search called the embedding service and the call failed
EmbeddingFailedInBuild ==
  op.kind = "build" /\ op.fault = "embed" /\ Len(KeptDocs(op.docs, {})) > 0
EmbeddingFailedInSearch ==
  op.kind = "retrieve" /\ op.fault = "embed"

\* C16 as stated: when the embedding service call fails during an index
\* build or during a search, the failure propagates as an error to the caller
\* of that operation, and the indexes of the stories are left as they were.
C16_EmbeddingFailurePropagates ==
  /\ EmbeddingFailedInBuild => (op.raised /\ disk = op.before)
  /\ EmbeddingFailedInSearch => op.raised

\* C16 amended: a failure of the embedding service during an index build
\* propagates as an error to the caller of build_faiss_for_id and leaves the
\* indexes of all stories as they were; a failure during a search is caught
\* by retrieve_by_id, which returns the empty list without raising.
C16_EmbeddingFailureHandled ==
  /\ EmbeddingFailedInBuild => (op.raised /\ op.ret = EmptyHandle /\ disk = op.before)
  /\ EmbeddingFailedInSearch => (~op.raised /\ op.ret = <<>>)

\* the embedding service fails in a build of one story while the other
\* story's index is on disk
C16_Witness ==
  /\ EmbeddingFailedInBuild /\ op.rid = "s1" /\ op.raised
  /\ disk["s2"].state = "index" /\ disk["s1"].state = "absent"

\* the embedding service fails in a search on a built index
C16_WitnessSearch ==
  /\ EmbeddingFailedInSearch /\ disk[op.rid].state = "index" /\ op.ret = <<>>

\* a build that wrote the index of its story
BuildSucceeded ==
  op.kind = "build" /\ ~op.raised /\ op.ret = IndexPath(op.rid)

RECURSIVE SumSeq(_)
SumSeq(q) == IF Len(q) = 0 THEN 0 ELSE q[1] + SumSeq(Tail(q))

-----------------------------------------------------------------------------
\* C18: a matched substring of every form of the pattern list that denotes a
\* valid in-range date yields a date: the ISO, slash, Chinese year-month-day,
\* US and 10-digit timestamp forms, the dotted form, the Chinese year-month
\* and month-day forms, and a 13-digit millisecond timestamp t, which yields
\* the date of t/1000 seconds.
C18_EveryFormParsed ==
  tpPc = "extracted" =>
    /\ (tpText = TextIsoJan => tpOut = <<Date(2023, 1, 1)>>)
    /\ (tpText = TextSlashJun => tpOut = <<Date(2023, 6, 1)>>)
    /\ (tpText = TextCnAlone => tpOut = <<Date(2023, 5, 1)>>)
    /\ (tpText = TextUsJun => tpOut = <<Date(2023, 6, 1)>>)
    /\ (tpText = TextTs10 => tpOut = <<FromTimestamp(<<17000, 0>>)>>)
    /\ (tpText = TextTs13 => tpOut = <<FromTimestamp(<<17000, 0>>)>>)
    /\ (tpText = TextDotted => tpOut = <<Date(2023, 5, 1)>>)
    /\ (tpText = TextCnYm => tpOut # <<>>)
    /\ (tpText = TextCnMd => tpOut # <<>>)

\* the forms that have a branch of their own that is reached are parsed
C18_BranchedFormsParsed ==
  tpPc = "extracted" =>
    /\ (tpText = TextIsoJan => tpOut = <<Date(2023, 1, 1)>>)
    /\ (tpText = TextSlashJun => tpOut = <<Date(2023, 6, 1)>>)
    /\ (tpText = TextCnAlone => tpOut = <<Date(2023, 5, 1)>>)
    /\ (tpText = TextUsJun => tpOut = <<Date(2023, 6, 1)>>)
    /\ (tpText = TextTs10 => tpOut = <<FromTimestamp(<<17000, 0>>)>>)
    /\ (tpText \in {TextTs13, TextDotted, TextCnYm, TextCnMd} => tpOut = <<>>)

-----------------------------------------------------------------------------
\* the documents are in non-decreasing latest_date order, the dateless last
LatestOrdered(docs) ==
  \A i, j \in 1..Len(docs) :
    (i < j /\ docs[j].latest_date # None) =>
      /\ docs[i].latest_date # None
      /\ DtLeq(docs[i].latest_date, docs[j].latest_date)

\* C19: whenever a caller asks for sort_by = 'latest', through
\* enhance_retrieval_with_time_sorting (as retrieve_with_time_sorting does) or
\* through the sort_documents_by_time wrappers given raw retrieved chunks, the
\* returned merged documents are in non-decreasing latest_date order with the
\* dateless documents last.
C19_LatestHonoured ==
  (tpPc \in {"enhanced", "wrapped"} /\ tpSortBy = "latest") => LatestOrdered(tpOut)

\* the callers that pass sort_by on (TimeProcessor.sort_documents_by_time
\* under enhance_retrieval_with_time_sorting) sort by latest_date
C19_LatestHonouredByProcessor ==
  (tpPc = "enhanced" /\ tpSortBy = "latest") => LatestOrdered(tpOut)

-----------------------------------------------------------------------------
\* the position before the i-th of the parts laid end to end, sep apart
OffsetOf(lens, i, sep) == SumSeq([j \in 1..(i - 1) |-> lens[j] + sep])

\* C20: for every non-empty group of chunks, merge_chunks_for_document
\* returns a document whose content is the chunk contents joined by single
\* spaces in order, whose chunk_count is the group size, whose metadata is
\* the first chunk's metadata, whose dates are all dates extracted from all
\* chunks, and whose earliest_date and latest_date are the minimum and the
\* maximum of those dates, or both null exactly when no date was extracted.
C20_MergedDocument ==
  (tpPc = "merged" /\ Len(tpChunks) > 0) =>
    LET n == Len(tpChunks)
        clen == [i \in 1..n |-> Len(tpChunks[i].content)]
        dlen == [i \in 1..n |-> Len(DatesOfText(tpChunks[i].content))]
    IN /\ Len(tpOut.content) = SumSeq(clen) + (n - 1)
       /\ \A i \in 1..n :
            /\ SubSeq(tpOut.content, OffsetOf(clen, i, 1) + 1,
                      OffsetOf(clen, i, 1) + clen[i]) = tpChunks[i].content
            /\ i > 1 => tpOut.content[OffsetOf(clen, i, 1)] = " "
       /\ tpOut.chunk_count = n
       /\ tpOut.metadata = tpChunks[1].metadata
       /\ Len(tpOut.dates) = SumSeq(dlen)
       /\ \A i \in 1..n :
            SubSeq(tpOut.dates, OffsetOf(dlen, i, 0) + 1,
                   OffsetOf(dlen, i, 0) + dlen[i]) = DatesOfText(tpChunks[i].content)
       /\ IF Len(tpOut.dates) = 0
          THEN tpOut.earliest_date = None /\ tpOut.latest_date = None
          ELSE /\ tpOut.earliest_date \in Range(tpOut.dates)
               /\ tpOut.latest_date \in Range(tpOut.dates)
               /\ \A d \in Range(tpOut.dates) :
                    DtLeq(tpOut.earliest_date, d) /\ DtLeq(d, tpOut.latest_date)
               /\ DtLeq(tpOut.earliest_date, tpOut.latest_date)

\* a June chunk of d2, a dateless chunk of d1 and a two-date chunk of d1 are merged
C20_Witness ==
  /\ tpPc = "merged"
  /\ tpChunks = <<Chunk(TextSlashJun, "d2"), Chunk(TextPlain, "d1"), Chunk(TextTwoDates, "d1")>>
  /\ tpOut.metadata.doc_id = "d2" /\ tpOut.chunk_count = 3
  /\ tpOut.dates = <<Date(2023, 6, 1), Date(2023, 6, 1), Date(2023, 1, 1)>>
  /\ tpOut.earliest_date = Date(2023, 1, 1) /\ tpOut.latest_date = Date(2023, 6, 1)

-----------------------------------------------------------------------------
\* the positions of the input chunks whose doc_id is d
PositionsOf(d) == {i \in 1..Len(tpChunks) : tpChunks[i].metadata.doc_id = d}

\* the k-th smallest element of a set of positions
KthOf(P, k) == CHOOSE i \in P : Cardinality({j \in P : j < i}) = k - 1

\* C21: group_chunks_by_document partitions exactly the input chunks that
\* carry a non-empty doc_id: the group of a doc_id holds the chunks of that
\* doc_id, each once and in retrieval order; the groups come in order of
\* first appearance of their doc_id; chunks without a doc_id are in no group;
\* hence the chunk_count values of the merged documents sum to the number of
\* input chunks that have a doc_id.
C21_GroupsPartition ==
  /\ tpPc = "grouped" =>
       /\ {tpOut[g][1] : g \in 1..Len(tpOut)}
            = {tpChunks[i].metadata.doc_id : i \in 1..Len(tpChunks)} \ {NoDocId}
       /\ \A g \in 1..Len(tpOut) :
            /\ Len(tpOut[g][2]) = Cardinality(PositionsOf(tpOut[g][1]))
            /\ \A k \in 1..Len(tpOut[g][2]) :
                 tpOut[g][2][k] = tpChunks[KthOf(PositionsOf(tpOut[g][1]), k)]
       /\ \A g, h \in 1..Len(tpOut) :
            g < h => KthOf(PositionsOf(tpOut[g][1]), 1) < KthOf(PositionsOf(tpOut[h][1]), 1)
  /\ tpPc = "enhanced" =>
       SumSeq([i \in 1..Len(tpOut) |-> tpOut[i].chunk_count])
         = Cardinality({i \in 1..Len(tpChunks) : tpChunks[i].metadata.doc_id # NoDocId})

\* two chunks of d2 around a chunk without doc_id are grouped
C21_Witness ==
  /\ tpPc = "grouped"
  /\ tpChunks = <<Chunk(TextIsoJan, "d2"), Chunk(TextPlain, NoDocId), Chunk(TextSlashJun, "d2")>>
  /\ tpOut = <<<<"d2", <<Chunk(TextIsoJan, "d2"), Chunk(TextSlashJun, "d2")>>>>>>

\* chunks of two documents interleaved with a chunk without doc_id are merged
C21_WitnessMerged ==
  /\ tpPc = "enhanced"
  /\ tpChunks = <<Chunk(TextSlashJun, "d2"), Chunk(TextPlain, NoDocId), Chunk(TextIsoJan, "d1")>>
  /\ [i \in 1..Len(tpOut) |-> tpOut[i].chunk_count] = <<1, 1>>

-----------------------------------------------------------------------------
\* the chunks returned are the whole text when n <= c, and otherwise the
\* windows [i*s, min(n, i*s + c)) for i = 0, 1, ... with s = max(1, c - o), up
\* to and including the first window whose end reaches n; every chunk but the
\* last has c tokens and two adjacent chunks share c - s tokens
SlidingWindows ==
  IF ckN <= ckSize THEN ckOut = <<<<0, ckN>>>>
  ELSE LET s == IF ckSize - ckOverlap >= 1 THEN ckSize - ckOverlap ELSE 1
           m == Len(ckOut)
       IN /\ m >= 1
          /\ \A i \in 1..m :
               /\ ckOut[i][1] = (i - 1) * s
               /\ ckOut[i][2] = (IF (i - 1) * s + ckSize <= ckN
                                 THEN (i - 1) * s + ckSize ELSE ckN)
               /\ ckOut[i][1] < ckOut[i][2]
          /\ ckOut[m][2] = ckN
          /\ \A i \in 1..(m - 1) :
               /\ ckOut[i][2] < ckN
               /\ ckOut[i][2] - ckOut[i][1] = ckSize
               /\ ckOut[i][2] - ckOut[i + 1][1] = ckSize - s

\* C22 as stated: for a token sequence of length n, chunk_size c >= 1 and
\* overlap o, chunk_text returns the sliding windows described above.
C22_WindowsAsStated ==
  (ckPc = "done" /\ ckSize >= 1) => SlidingWindows

\* C22 amended: for a token sequence of length n, chunk_size c >= 1 and
\* overlap o >= 0, chunk_text returns the sliding windows described above.
C22_Windows ==
  (ckPc = "done" /\ ckSize >= 1 /\ ckOverlap >= 0) => SlidingWindows

\* six tokens in windows of four with an overlap of two
C22_Witness ==
  /\ ckPc = "done" /\ ckN = 6 /\ ckSize = 4 /\ ckOverlap = 2
  /\ ckOut = <<<<0, 4>>, <<2, 6>>>>

\* an overlap no smaller than the window: stride 1, c - 1 tokens shared
C22_WitnessClamped ==
  /\ ckPc = "done" /\ ckN = 4 /\ ckSize = 2 /\ ckOverlap = 5
  /\ ckOut = <<<<0, 2>>, <<1, 3>>, <<2, 4>>>>

-----------------------------------------------------------------------------
(* SpecEmbed: LCEmbeddings.embed_documents run step by step, one step per    *)
(* call of the embedding service.  A text is seen through its number of      *)
(* tokens; a chunk is <<index of its text, token span>>; the embedding the   *)
(* service returns for a string is [of |-> the string], one per input string *)
(* in input order; an aggregated vector is [aggregate_of |-> the embeddings  *)
(* it is the mean of].  The call record op holds the locals.                 *)

\* batch_size = 16 (embed_documents, line 24)
BatchSize == 16

MaxTexts == 3
\* token counts of the texts: empty, short, one window, two chunks (just over
\* one window, and two full strides), three chunks, 16 chunks, 17 chunks
TokenLengths ==
  {0, 5, CHUNK_SIZE, CHUNK_SIZE + 1,
   CHUNK_SIZE + ChunkStep(CHUNK_SIZE, CHUNK_OVERLAP),
   CHUNK_SIZE + ChunkStep(CHUNK_SIZE, CHUNK_OVERLAP) + 1,
   CHUNK_SIZE + 15 * ChunkStep(CHUNK_SIZE, CHUNK_OVERLAP),
   CHUNK_SIZE + 16 * ChunkStep(CHUNK_SIZE, CHUNK_OVERLAP)}

\* chunks_per_doc (line 18)
ChunksPerDoc(texts) ==
  [t \in 1..Len(texts) |-> chunk_text(texts[t], CHUNK_SIZE, CHUNK_OVERLAP)]

\* the chunks of text t, each tagged with t
TaggedChunks(t, cs) == [k \in 1..Len(cs) |-> <<t, cs[k]>>]

RECURSIVE FlatFrom(_, _)
\* flat_chunks (lines 19-23): the chunks of all texts from text t on
FlatFrom(chunks_per_doc, t) ==
  IF t > Len(chunks_per_doc) THEN <<>>
  ELSE TaggedChunks(t, chunks_per_doc[t]) \o FlatFrom(chunks_per_doc, t + 1)

\* texts[i:i + batch_size] with the last string of the slice left out
BatchSliceDroppingLast(texts, i, batch_size) ==
  SubSeq(texts, i + 1, Min(Len(texts), i + batch_size - 1))

\* texts[i:i + batch_size] (line 70)
BatchSlice(texts, i, batch_size) ==
  SubSeq(texts, i + 1, Min(Len(texts), i + batch_size))

\* embedding_client.embeddings.create(input = batch): one embedding per
\* input string, in input order
EmbeddingService(batch) == [j \in 1..Len(batch) |-> [of |-> batch[j]]]

RECURSIVE AggregateSlices(_, _, _)
\* lines 25-30: for c in counts: out.append(aggregate(flat_embs[i:i + c]))
AggregateSlices(counts, flat_embs, i) ==
  IF Len(counts) = 0 THEN <<>>
  ELSE <<[aggregate_of |-> SubSeq(flat_embs, i + 1, Min(Len(flat_embs), i + counts[1]))]>>
         \o AggregateSlices(Tail(counts), flat_embs, i + counts[1])

\* lines 18-24: embed_documents(texts) chunks the texts and enters
\* embed_texts_batch(flat_chunks, 16)
EmStart ==
  /\ op.kind = "none"
  /\ \E texts \in SeqsUpTo(TokenLengths, MaxTexts) :
       op' = [kind |-> "embed", pc |-> "batch", texts |-> texts,
              counts |-> [t \in 1..Len(texts) |-> Len(ChunksPerDoc(texts)[t])],
              flat_chunks |-> FlatFrom(ChunksPerDoc(texts), 1),
              i |-> 0, calls |-> <<>>, out |-> <<>>, ret |-> <<>>]
  /\ UNCHANGED <<data, disk>>
  /\ UNCHANGED <<tpVars, ckVars, batVars, wk>>

\* lines 69-74: one iteration of the for loop of embed_texts_batch
EmBatch ==
  /\ op.kind = "embed" /\ op.pc = "batch"
  /\ op.i < Len(op.flat_chunks)
  /\ op' = [op EXCEPT
              !.calls = IF Len(BatchSlice(op.flat_chunks, op.i, BatchSize)) = 0
                        THEN @ ELSE Append(@, BatchSlice(op.flat_chunks, op.i, BatchSize)),
              !.out = IF Len(BatchSlice(op.flat_chunks, op.i, BatchSize)) = 0
                      THEN @
                      ELSE @ \o EmbeddingService(BatchSlice(op.flat_chunks, op.i, BatchSize)),
              !.i = @ + BatchSize]
  /\ UNCHANGED <<data, disk>>
  /\ UNCHANGED <<tpVars, ckVars, batVars, wk>>

\* lines 75, 25-31: the loop is over; embed_documents aggregates per text
EmAggregate ==
  /\ op.kind = "embed" /\ op.pc = "batch"
  /\ ~(op.i < Len(op.flat_chunks))
  /\ op' = [op EXCEPT !.pc = "done",
                      !.ret = AggregateSlices(op.counts, op.out, 0)]
  /\ UNCHANGED <<data, disk>>
  /\ UNCHANGED <<tpVars, ckVars, batVars, wk>>

\* embed_documents returns to its caller
EmReturn ==
  /\ op.kind = "embed" /\ op.pc = "done"
  /\ op' = [kind |-> "none"]
  /\ UNCHANGED <<data, disk>>
  /\ UNCHANGED <<tpVars, ckVars, batVars, wk>>

InitEmbed == TpIdle /\ CkIdle /\ BatIdle /\ SysIdle
NextEmbed == EmStart \/ EmBatch \/ EmAggregate \/ EmReturn
SpecEmbed == InitEmbed /\ [][NextEmbed]_vars

\* C23: with an embedding service that returns one vector per input string
\* in input order, embed_texts_batch calls it on consecutive slices of at
\* most 16 strings and returns one vector per input string in input order,
\* and embed_documents returns one vector per text, in order, the i-th being
\* the aggregate of the embeddings of precisely the chunks of the i-th text.
C23_BatchesAndAggregates ==
  (op.kind = "embed" /\ op.pc = "done") =>
    /\ \A c \in 1..Len(op.calls) :
         /\ Len(op.calls[c]) >= 1 /\ Len(op.calls[c]) <= 16
         /\ c < Len(op.calls) => Len(op.calls[c]) = 16
         /\ \A j \in 1..Len(op.calls[c]) :
              op.calls[c][j] = op.flat_chunks[16 * (c - 1) + j]
    /\ SumSeq([c \in 1..Len(op.calls) |-> Len(op.calls[c])]) = Len(op.flat_chunks)
    /\ Len(op.out) = Len(op.flat_chunks)
    /\ \A j \in 1..Len(op.out) : op.out[j].of = op.flat_chunks[j]
    /\ Len(op.ret) = Len(op.texts)
    /\ \A t \in 1..Len(op.texts) :
         LET cs == chunk_text(op.texts[t], 1024, 128)
             agg == op.ret[t].aggregate_of
         IN /\ Len(agg) = Len(cs)
            /\ \A k \in 1..Len(cs) : agg[k].of = <<t, cs[k]>>

\* a text of 17 chunks between two short texts: two calls, of 16 and of 3
\* strings, and three aggregates of 1, 17 and 1 embeddings
C23_Witness ==
  /\ op.kind = "embed" /\ op.pc = "done"
  /\ op.texts = <<5, CHUNK_SIZE + 16 * ChunkStep(CHUNK_SIZE, CHUNK_OVERLAP), 5>>
  /\ [c \in 1..Len(op.calls) |-> Len(op.calls[c])] = <<16, 3>>
  /\ [t \in 1..Len(op.ret) |-> Len(op.ret[t].aggregate_of)] = <<1, 17, 1>>

-----------------------------------------------------------------------------
(* SpecPool: generate_report of generate_report_zcm.py submits one           *)
(* process_task per element of ids, repeated ids included; the list is no    *)
(* longer than the pool, so every task runs on a thread of its own.  Worker  *)
(* w runs the task of ids[w]; a worker beyond the list has no task.          *)

MaxPoolIds == 2

InitPool ==
  /\ TpIdle /\ CkIdle
  /\ batPc = "idle" /\ driver = "none" /\ runs = <<>>
  /\ reports = <<>> /\ results_map = <<>> /\ failed_ids = <<>>
  /\ pending = {} /\ result_file = NoFile /\ batRaised = FALSE
  /\ \E l \in SeqsUpTo(Stories, MaxPoolIds) \ {<<>>} :
       /\ ids = l
       /\ wk = [w \in 1..MaxPoolIds |->
                  IF w <= Len(l) THEN [pc |-> "idle", vs |-> <<>>, task |-> l[w]]
                  ELSE [pc |-> "unsubmitted", vs |-> <<>>, task |-> "none"]]
  /\ \E docs1 \in {<<>>, <<Doc("d1", TextPlain)>>} :
       data = [s \in Stories |-> IF s = "s1" THEN docs1 ELSE <<Doc("d1", TextPlain2)>>]
  /\ \E d2 \in {Absent, Saved(BuildEntries("s2", <<Doc("d1", TextPlain2)>>))} :
       disk = [s \in Stories |-> IF s = "s2" THEN d2 ELSE Absent]
  /\ op = [kind |-> "none"]

NextPool ==
  \E w \in 1..MaxPoolIds :
    WkStart(w) \/ WkFilter(w) \/ WkEmbed(w) \/ WkMakedirs(w) \/ WkSave(w)
SpecPool == InitPool /\ [][NextPool]_vars

\* worker w is inside build_faiss_for_id
Building(w) == wk[w].pc \in {"filter", "embed", "makedirs", "save"}

\* C24: for any list of ids, lists that repeat a story id included, at no
\* time are two workers building the same story's index, and no worker is
\* past the check, about to load the story's index, while another worker is
\* still writing it.
C24_ExclusivePerStory ==
  \A v, w \in 1..MaxPoolIds :
    (v # w /\ TaskOf(v) = TaskOf(w)) =>
      /\ ~(Building(v) /\ Building(w))
      /\ ~(wk[v].pc = "graph" /\ wk[w].pc = "save")

\* workers of different stories never share a directory: the builds of
\* distinct ids are exclusive
C24_DistinctIdsExclusive ==
  \A v, w \in 1..MaxPoolIds :
    (v # w /\ Building(v) /\ Building(w) /\ TaskOf(v) # TaskOf(w)) =>
      OutDir(TaskOf(v)) # OutDir(TaskOf(w))

=============================================================================
